---- MODULE Spec2Model ----
(***************************************************************************)
(* Model of the airtable-core server client: the request executor          *)
(* (airtableRequest), the error classifier (normalizeErrorMessage,          *)
(* toSpecificError), the client facade (createAirtableClient), the          *)
(* pagination driver (listAllRecords) with its listAll wrapper, and the     *)
(* table repository (createTableRepo).                                      *)
(*                                                                          *)
(* JavaScript values are records with a tag field t; JavaScript strings     *)
(* whose characters matter (messages, status texts, header values) are      *)
(* sequences of one-character strings.                                      *)
(***************************************************************************)
EXTENDS Integers, Sequences, FiniteSets, TLC

VARIABLES client, req, la, repo, att, table

vars == <<client, req, la, repo, att, table>>

(***************************************************************************)
(* Bounds of the model.                                                     *)
(***************************************************************************)
MaxListCalls == 3
MaxPageSize == 2
MaxCeiling == 3

(***************************************************************************)
(* Program constants.                                                       *)
(***************************************************************************)
DefaultTimeoutMs == 15000
DefaultMaxTotalRecords == 10000
TimeoutStatus == 408
NetworkStatus == 503

(***************************************************************************)
(* JavaScript values.                                                       *)
(***************************************************************************)
Undefined == [t |-> "undefined"]
JNull == [t |-> "null"]
JStr(s) == [t |-> "string", v |-> s]
JNum(n) == [t |-> "number", v |-> n]
JArr == [t |-> "array"]

IsString(v) == v.t = "string"
IsNumber(v) == v.t = "number"
\* typeof v === "object" is true of objects, arrays and null
TypeofObject(v) == v.t \in {"object", "array", "null", "error"}
Nullish(v) == v.t \in {"undefined", "null"}
Falsy(v) ==
    \/ Nullish(v)
    \/ (v.t = "string" /\ v.v = <<>>)
    \/ (v.t = "number" /\ v.v = 0)
Truthy(v) == ~Falsy(v)

\* v?.key : undefined for undefined/null and for a missing property
Get(v, key) ==
    IF v.t \in {"object", "error"} /\ key \in DOMAIN v THEN v[key] ELSE Undefined

\* a ?? b
Coalesce(a, b) == IF Nullish(a) THEN b ELSE a

(***************************************************************************)
(* Character strings.                                                       *)
(***************************************************************************)
DigitChar == <<"0", "1", "2", "3", "4", "5", "6", "7", "8", "9">>

RECURSIVE Digits(_)
\* String(n) for a natural number n
Digits(n) ==
    IF n < 10 THEN <<DigitChar[n + 1]>>
    ELSE Digits(n \div 10) \o <<DigitChar[(n % 10) + 1]>>

IsSpace(c) == c \in {" ", "\t", "\n"}

RECURSIVE TrimStart(_)
TrimStart(s) ==
    IF s # <<>> /\ IsSpace(Head(s)) THEN TrimStart(Tail(s)) ELSE s

RECURSIVE TrimEnd(_)
TrimEnd(s) ==
    IF s # <<>> /\ IsSpace(s[Len(s)]) THEN TrimEnd(SubSeq(s, 1, Len(s) - 1)) ELSE s

\* String.prototype.trim
Trim(s) == TrimEnd(TrimStart(s))

\* String.prototype.includes
Includes(s, sub) ==
    \E i \in 0..(Len(s) - Len(sub)) : SubSeq(s, i + 1, i + Len(sub)) = sub

ApplicationJson ==
    <<"a","p","p","l","i","c","a","t","i","o","n","/","j","s","o","n">>
JsonCharset == ApplicationJson \o <<";"," ","c","h","a","r","s","e","t","=","u","t","f","-","8">>
TextPlain == <<"t","e","x","t","/","p","l","a","i","n">>

TimedOutPrefix ==
    <<"R","e","q","u","e","s","t"," ","t","i","m","e","d"," ","o","u","t"," ",
      "a","f","t","e","r"," ">>
RequestTimeoutText == <<"R","e","q","u","e","s","t"," ","T","i","m","e","o","u","t">>
NetworkErrorText == <<"N","e","t","w","o","r","k"," ","E","r","r","o","r">>
NetworkFailedText ==
    <<"N","e","t","w","o","r","k"," ","r","e","q","u","e","s","t"," ",
      "f","a","i","l","e","d">>

(***************************************************************************)
(* Error classes of request.ts.  An error value is a record carrying the    *)
(* class name (the kind tag) and the fields of AirtableHttpError.           *)
(***************************************************************************)
AirtableHttpError(args) ==
    [t |-> "error", name |-> "AirtableHttpError", http |-> TRUE,
     status |-> args.status, statusText |-> args.statusText, url |-> args.url,
     message |-> args.message, details |-> args.details]

SpecializedDropsDetails(base, name) ==
    [AirtableHttpError([status |-> base.status, statusText |-> base.statusText,
                        url |-> base.url, message |-> base.message,
                        details |-> Undefined])
        EXCEPT !.name = name]

\* a subclass constructor: super({...the five fields of base}); this.name = name
Specialized(base, name) ==
    [AirtableHttpError([status |-> base.status, statusText |-> base.statusText,
                        url |-> base.url, message |-> base.message,
                        details |-> base.details])
        EXCEPT !.name = name]

AirtableAuthError(base) == Specialized(base, "AirtableAuthError")
AirtableRateLimitError(base) == Specialized(base, "AirtableRateLimitError")
AirtableNotFoundError(base) == Specialized(base, "AirtableNotFoundError")
AirtableValidationError(base) == Specialized(base, "AirtableValidationError")

AirtableNetworkError(args) ==
    [AirtableHttpError([status |-> NetworkStatus, statusText |-> NetworkErrorText,
                        url |-> args.url, message |-> args.message,
                        details |-> args.details])
        EXCEPT !.name = "AirtableNetworkError"]

\* err instanceof AirtableHttpError
IsHttpError(e) == e.t = "error" /\ e.http

\* An error that is not of the library's hierarchy (TypeError, DOMException ...)
RawError(name, message) ==
    [t |-> "error", name |-> name, http |-> FALSE, message |-> message]

(***************************************************************************)
(* safeJsonParse.  A response text is either the JSON encoding of a value  *)
(* (json = TRUE, val the encoded value) or a text JSON.parse rejects.       *)
(***************************************************************************)
JsonText(v) == [json |-> TRUE, val |-> v]
PlainText(s) == [json |-> FALSE, val |-> s]

\* the JavaScript string holding a response text
RawString(text) == [t |-> "string", v |-> text]

safeJsonParse(rawText) ==
    IF rawText.v.json THEN rawText.v.val ELSE Undefined

(***************************************************************************)
(* normalizeErrorMessage                                                    *)
(***************************************************************************)
normalizeErrorMessageDropsType(status, statusText, details) ==
    LET msg == Get(Get(details, "error"), "message")
    IN  IF Truthy(details) /\ TypeofObject(details) /\ IsString(msg)
            THEN msg.v
        ELSE Trim(Digits(status) \o <<" ">> \o statusText)

normalizeErrorMessage(status, statusText, details) ==
    LET msg == Get(Get(details, "error"), "message")
        typ == Get(Get(details, "error"), "type")
    IN  IF Truthy(details) /\ TypeofObject(details) /\ IsString(msg) /\ IsString(typ)
            THEN typ.v \o <<":", " ">> \o msg.v
        ELSE IF Truthy(details) /\ TypeofObject(details) /\ IsString(msg)
            THEN msg.v
        ELSE Trim(Digits(status) \o <<" ">> \o statusText)

(***************************************************************************)
(* toSpecificError                                                          *)
(***************************************************************************)
toSpecificErrorNo429(err) ==
    IF err.status = 401 \/ err.status = 403 THEN AirtableAuthError(err)
    ELSE IF err.status = 404 THEN AirtableNotFoundError(err)
    ELSE IF err.status = 422 THEN AirtableValidationError(err)
    ELSE err

toSpecificError(err) ==
    IF err.status = 401 \/ err.status = 403 THEN AirtableAuthError(err)
    ELSE IF err.status = 404 THEN AirtableNotFoundError(err)
    ELSE IF err.status = 422 THEN AirtableValidationError(err)
    ELSE IF err.status = 429 THEN AirtableRateLimitError(err)
    ELSE err

(***************************************************************************)
(* endpoints.ts: URL and query building.  A URL is kept as its three        *)
(* concatenated parts; the query part is the content of the                 *)
(* URLSearchParams object, empty when the query string is "".               *)
(***************************************************************************)
DefaultAirtableApiUrl ==
    <<"h","t","t","p","s",":","/","/","a","p","i",".","a","i","r","t","a","b","l","e",
      ".","c","o","m","/","v","0">>

\* encodeURIComponent on the characters the model uses
EncodeChar(c) ==
    CASE c = " " -> <<"%", "2", "0">>
      [] c = "/" -> <<"%", "2", "F">>
      [] c = "?" -> <<"%", "3", "F">>
      [] OTHER -> <<c>>

RECURSIVE encodeURIComponent(_)
encodeURIComponent(s) ==
    IF s = <<>> THEN <<>> ELSE EncodeChar(Head(s)) \o encodeURIComponent(Tail(s))

RECURSIVE StripTrailingSlashes(_)
\* apiUrl.replace(/\/+$/, "")
StripTrailingSlashes(s) ==
    IF s # <<>> /\ s[Len(s)] = "/" THEN StripTrailingSlashes(SubSeq(s, 1, Len(s) - 1))
    ELSE s

buildBaseUrl(apiUrl, baseId) ==
    StripTrailingSlashes(apiUrl) \o <<"/">> \o encodeURIComponent(baseId)

buildTablePath(tableName) == <<"/">> \o encodeURIComponent(tableName)

buildRecordPath(tableName, recordId) ==
    buildTablePath(tableName) \o <<"/">> \o encodeURIComponent(recordId)

\* one entry of a URLSearchParams: key, or key[idx][sub] when sub # ""
QEntry(key, idx, sub, val) == [key |-> key, idx |-> idx, sub |-> sub, val |-> val]

RECURSIVE SortEntries(_, _)
\* params.sort.forEach((s, i) => ...), i counted from 0
SortEntries(sort, i) ==
    IF i >= Len(sort) THEN <<>>
    ELSE <<QEntry("sort", i, "field", sort[i + 1].field.v)>>
         \o (IF Truthy(sort[i + 1].direction)
               THEN <<QEntry("sort", i, "direction", sort[i + 1].direction.v)>>
               ELSE <<>>)
         \o SortEntries(sort, i + 1)

buildListQueryTruthyNumbers(params) ==
    IF Falsy(params) THEN <<>>
    ELSE (IF Truthy(params.view) THEN <<QEntry("view", 0, "", params.view.v)>> ELSE <<>>)
      \o (IF Truthy(params.filterByFormula)
            THEN <<QEntry("filterByFormula", 0, "", params.filterByFormula.v)>> ELSE <<>>)
      \o (IF Truthy(params.maxRecords)
            THEN <<QEntry("maxRecords", 0, "", Digits(params.maxRecords.v))>> ELSE <<>>)
      \o (IF Truthy(params.pageSize)
            THEN <<QEntry("pageSize", 0, "", Digits(params.pageSize.v))>> ELSE <<>>)
      \o (IF Truthy(params.offset) THEN <<QEntry("offset", 0, "", params.offset.v)>> ELSE <<>>)
      \o SortEntries(params.sort, 0)

\* params: Undefined, or an object with the fields of AirtableListParams; the
\* sort array is a sequence, empty when params.sort is absent or empty
buildListQuery(params) ==
    IF Falsy(params) THEN <<>>
    ELSE (IF Truthy(params.view) THEN <<QEntry("view", 0, "", params.view.v)>> ELSE <<>>)
      \o (IF Truthy(params.filterByFormula)
            THEN <<QEntry("filterByFormula", 0, "", params.filterByFormula.v)>> ELSE <<>>)
      \o (IF IsNumber(params.maxRecords)
            THEN <<QEntry("maxRecords", 0, "", Digits(params.maxRecords.v))>> ELSE <<>>)
      \o (IF IsNumber(params.pageSize)
            THEN <<QEntry("pageSize", 0, "", Digits(params.pageSize.v))>> ELSE <<>>)
      \o (IF Truthy(params.offset) THEN <<QEntry("offset", 0, "", params.offset.v)>> ELSE <<>>)
      \o SortEntries(params.sort, 0)

KeyText(key) ==
    CASE key = "view" -> <<"v","i","e","w">>
      [] key = "filterByFormula" -> <<"f","i","l","t","e","r","B","y","F","o","r","m","u","l","a">>
      [] key = "maxRecords" -> <<"m","a","x","R","e","c","o","r","d","s">>
      [] key = "pageSize" -> <<"p","a","g","e","S","i","z","e">>
      [] key = "offset" -> <<"o","f","f","s","e","t">>
      [] key = "sort" -> <<"s","o","r","t">>
      [] key = "field" -> <<"f","i","e","l","d">>
      [] key = "direction" -> <<"d","i","r","e","c","t","i","o","n">>

\* the application/x-www-form-urlencoded form of the characters the model uses
FormChar(c) ==
    CASE c = " " -> <<"+">>
      [] c = "[" -> <<"%", "5", "B">>
      [] c = "]" -> <<"%", "5", "D">>
      [] c = "&" -> <<"%", "2", "6">>
      [] c = "=" -> <<"%", "3", "D">>
      [] c = "?" -> <<"%", "3", "F">>
      [] OTHER -> <<c>>

RECURSIVE FormEncode(_)
FormEncode(str) ==
    IF str = <<>> THEN <<>> ELSE FormChar(Head(str)) \o FormEncode(Tail(str))

\* the name of an entry: key, or `sort[${i}][field]`
EntryName(e) ==
    IF e.sub = "" THEN KeyText(e.key)
    ELSE KeyText(e.key) \o <<"[">> \o Digits(e.idx) \o <<"]", "[">> \o KeyText(e.sub) \o <<"]">>

RECURSIVE QToString(_)
\* q.toString(): name=value pairs joined by "&"
QToString(q) ==
    IF q = <<>> THEN <<>>
    ELSE FormEncode(EntryName(Head(q))) \o <<"=">> \o FormEncode(Head(q).val)
         \o (IF Tail(q) = <<>> THEN <<>> ELSE <<"&">> \o QToString(Tail(q)))

\* qs ? `?${qs}` : "" : the string buildListQuery returns for the content q
QueryString(q) ==
    LET qs == QToString(q) IN IF qs # <<>> THEN <<"?">> \o qs ELSE <<>>

ListParams(view, filterByFormula, maxRecords, pageSize, offset, sort) ==
    [t |-> "object", view |-> view, filterByFormula |-> filterByFormula,
     maxRecords |-> maxRecords, pageSize |-> pageSize, offset |-> offset, sort |-> sort]

Url(base, path, query) == [base |-> base, path |-> path, query |-> query]

(***************************************************************************)
(* State of one call of airtableRequest.                                    *)
(*   pc      idle | fetching (await fetch) | reading (await res.text())     *)
(*           | ok | failed                                                  *)
(*   timer   none | pending | fired | cleared   (setTimeout / clearTimeout) *)
(*   aborted controller.signal.aborted                                      *)
(*   sent    the HTTP requests handed to fetch by this call                 *)
(*   cause   what ended the call: response | transport | abort | stringify  *)
(*   thrown  the value the catch block received                             *)
(***************************************************************************)
Slots == {"a", "b"}

InFlight(r) == r.pc \in {"fetching", "reading"}
Settled(r) == r.pc \in {"ok", "failed"}

NoArgs == [t |-> "undefined"]
NoRes == [t |-> "undefined"]

IdleReq ==
    [pc |-> "idle", timer |-> "none", aborted |-> FALSE, args |-> NoArgs,
     sent |-> <<>>, res |-> NoRes, result |-> Undefined, err |-> Undefined,
     cause |-> "none", thrown |-> Undefined]

BearerPrefix == <<"B","e","a","r","e","r"," ">>

\* JSON.stringify(body) throws on a circular structure
Serializable(body) == ~(body.t = "object" /\ body.circular)

CircularMessage == <<"c","i","r","c","u","l","a","r">>

WireRequestBareToken(args) ==
    [method |-> args.method, url |-> args.url,
     authorization |-> args.config.token,
     contentType |-> ApplicationJson,
     body |-> IF args.body.t = "undefined" THEN Undefined
              ELSE RawString(JsonText(args.body))]

\* the request fetch is called with
WireRequest(args) ==
    [method |-> args.method, url |-> args.url,
     authorization |-> BearerPrefix \o args.config.token,
     contentType |-> ApplicationJson,
     body |-> IF args.body.t = "undefined" THEN Undefined
              ELSE RawString(JsonText(args.body))]

\* the catch block: what the caller receives for a thrown err
CatchRethrowRaw(err, args) ==
    IF err.name = "AbortError"
      THEN AirtableHttpError([status |-> TimeoutStatus, statusText |-> RequestTimeoutText,
                              url |-> args.url,
                              message |-> TimedOutPrefix \o Digits(args.config.timeoutMs)
                                          \o <<"m", "s">>,
                              details |-> Undefined])
    ELSE err

CatchAbortAsNetwork(err, args) ==
    IF IsHttpError(err) THEN err
    ELSE AirtableNetworkError(
            [url |-> args.url,
             message |-> IF IsString(Get(err, "message")) THEN err.message.v
                         ELSE NetworkFailedText,
             details |-> err])

Catch(err, args) ==
    IF err.name = "AbortError"
      THEN AirtableHttpError([status |-> TimeoutStatus, statusText |-> RequestTimeoutText,
                              url |-> args.url,
                              message |-> TimedOutPrefix \o Digits(args.config.timeoutMs)
                                          \o <<"m", "s">>,
                              details |-> Undefined])
    ELSE IF IsHttpError(err) THEN err
    ELSE AirtableNetworkError(
            [url |-> args.url,
             message |-> IF IsString(Get(err, "message")) THEN err.message.v
                         ELSE NetworkFailedText,
             details |-> err])

FailAndRetry(r, err) ==
    [r EXCEPT !.pc = "failed", !.err = Catch(err, r.args), !.timer = "cleared",
              !.thrown = err, !.sent = Append(r.sent, WireRequest(r.args))]

FailKeepsTimer(r, err) ==
    [r EXCEPT !.pc = "failed", !.err = Catch(err, r.args), !.thrown = err]

\* a call settles with a failure: catch, then finally clearTimeout
Fail(r, err) ==
    [r EXCEPT !.pc = "failed", !.err = Catch(err, r.args), !.timer = "cleared",
              !.thrown = err]

\* res.ok
ResOk(status) == status >= 200 /\ status <= 299

StartedStringifyUncaught(args) ==
    IF Serializable(args.body)
      THEN [IdleReq EXCEPT !.pc = "fetching", !.timer = "pending",
                           !.args = args, !.sent = <<WireRequest(args)>>]
      ELSE [IdleReq EXCEPT !.pc = "failed", !.args = args, !.timer = "cleared",
                           !.cause = "stringify",
                           !.err = RawError("TypeError", JStr(CircularMessage)),
                           !.thrown = RawError("TypeError", JStr(CircularMessage))]

\* Entry of airtableRequest up to its first await: the controller and the
\* timer are created, then fetch is called with the serialized body.  When
\* JSON.stringify throws, fetch is never called and the catch block runs.
Started(args) ==
    IF Serializable(args.body)
      THEN [IdleReq EXCEPT !.pc = "fetching", !.timer = "pending",
                           !.args = args, !.sent = <<WireRequest(args)>>]
      ELSE Fail([IdleReq EXCEPT !.args = args, !.timer = "pending", !.cause = "stringify"],
                RawError("TypeError", JStr(CircularMessage)))

ReqStart(s, args) ==
    /\ req[s].pc = "idle"
    /\ req' = [req EXCEPT ![s] = Started(args)]

\* fetch resolves with a response; the call goes on to await res.text()
FetchResolve(s, status, statusText, contentType) ==
    /\ req[s].pc = "fetching"
    /\ ~req[s].aborted
    /\ req' = [req EXCEPT ![s].pc = "reading",
                          ![s].res = [status |-> status, statusText |-> statusText,
                                      contentType |-> contentType, text |-> Undefined]]
    /\ UNCHANGED <<client, la, repo, att, table>>

SettleStrictParse(r, text) ==
    LET contentType == Coalesce(r.res.contentType, JStr(<<>>)).v
        rawText == RawString(text)
        parsed == IF Includes(contentType, ApplicationJson) THEN safeJsonParse(rawText)
                  ELSE rawText
        r2 == [r EXCEPT !.cause = "response", !.res.text = text]
    IN  IF Includes(contentType, ApplicationJson) /\ ~text.json
          THEN Fail(r2, RawError("SyntaxError", JStr(<<"j">>)))
        ELSE IF ~ResOk(r.res.status)
          THEN Fail(r2, toSpecificError(AirtableHttpError(
                    [status |-> r.res.status, statusText |-> r.res.statusText,
                     url |-> r.args.url,
                     message |-> normalizeErrorMessage(r.res.status, r.res.statusText, parsed),
                     details |-> parsed])))
          ELSE [r2 EXCEPT !.pc = "ok", !.result = Coalesce(parsed, rawText),
                         !.timer = "cleared"]

\* res.text() resolves: parse, then fail with the classified error or return
Settle(r, text) ==
    LET contentType == Coalesce(r.res.contentType, JStr(<<>>)).v
        rawText == RawString(text)
        parsed == IF Includes(contentType, ApplicationJson) THEN safeJsonParse(rawText)
                  ELSE rawText
        r2 == [r EXCEPT !.cause = "response", !.res.text = text]
    IN  IF ~ResOk(r.res.status)
          THEN Fail(r2, toSpecificError(AirtableHttpError(
                    [status |-> r.res.status, statusText |-> r.res.statusText,
                     url |-> r.args.url,
                     message |-> normalizeErrorMessage(r.res.status, r.res.statusText, parsed),
                     details |-> parsed])))
          ELSE [r2 EXCEPT !.pc = "ok", !.result = Coalesce(parsed, rawText),
                         !.timer = "cleared"]

BodyResolve(s, text) ==
    /\ req[s].pc = "reading"
    /\ ~req[s].aborted
    /\ req' = [req EXCEPT ![s] = Settle(req[s], text)]
    /\ UNCHANGED <<client, la, repo, att, table>>

\* fetch or res.text() rejects with a transport failure
TransportFail(s, err) ==
    /\ req[s].pc \in {"fetching", "reading"}
    /\ ~req[s].aborted
    /\ req' = [req EXCEPT ![s] = Fail([req[s] EXCEPT !.cause = "transport"], err)]
    /\ UNCHANGED <<client, la, repo, att, table>>

TimerFireShared(s) ==
    /\ req[s].timer = "pending"
    /\ req' = [t \in Slots |->
                 IF t = s THEN [req[t] EXCEPT !.timer = "fired", !.aborted = TRUE]
                 ELSE IF InFlight(req[t]) THEN [req[t] EXCEPT !.aborted = TRUE]
                 ELSE req[t]]
    /\ UNCHANGED <<client, la, repo, att, table>>

\* the timer callback: controller.abort()
TimerFire(s) ==
    /\ req[s].timer = "pending"
    /\ req' = [req EXCEPT ![s].timer = "fired", ![s].aborted = TRUE]
    /\ UNCHANGED <<client, la, repo, att, table>>

\* the aborted fetch (or body read) rejects with an AbortError
AbortReject(s) ==
    /\ req[s].pc \in {"fetching", "reading"}
    /\ req[s].aborted
    /\ req' = [req EXCEPT ![s] = Fail([req[s] EXCEPT !.cause = "abort"],
                                      RawError("AbortError", JStr(<<"a">>)))]
    /\ UNCHANGED <<client, la, repo, att, table>>

\* the aborted fetch (or body read) rejects with the error err of the
\* transport's choosing; the catch block sees only that error
AbortRejectAs(s, err) ==
    /\ req[s].pc \in {"fetching", "reading"}
    /\ req[s].aborted
    /\ req' = [req EXCEPT ![s] = Fail([req[s] EXCEPT !.cause = "abort"], err)]
    /\ UNCHANGED <<client, la, repo, att, table>>

(***************************************************************************)
(* createClient.ts: the client facade.                                      *)
(*   client.state   none (nothing constructed yet) | ready | threw          *)
(*   client.config  the config object as it was when it was passed         *)
(*   client.held    the same object as the caller holds it now              *)
(***************************************************************************)
NoClient ==
    [state |-> "none", config |-> Undefined, held |-> Undefined, baseId |-> Undefined,
     apiUrl |-> Undefined, baseUrl |-> <<>>, reqConfig |-> Undefined]

ThrewClient(config) ==
    [NoClient EXCEPT !.state = "threw", !.config = config, !.held = config]

\* the validation of createAirtableClient: TRUE when construction throws
ConfigRejectedTokenOnly(config) == Falsy(config.token)

ConfigRejected(config) == Falsy(config.token) \/ Falsy(config.baseId)

\* what createAirtableClient(config) leaves the caller with
Construct(config) ==
    LET apiUrl == Coalesce(config.apiUrl, JStr(DefaultAirtableApiUrl))
        timeoutMs == Coalesce(config.timeoutMs, JNum(DefaultTimeoutMs))
    IN  IF ConfigRejected(config) THEN ThrewClient(config)
        ELSE [state |-> "ready", config |-> config, held |-> config,
              baseId |-> config.baseId, apiUrl |-> apiUrl,
              baseUrl |-> buildBaseUrl(apiUrl.v, Coalesce(config.baseId, JStr(<<>>)).v),
              reqConfig |-> [token |-> config.token.v, timeoutMs |-> timeoutMs.v]]

createAirtableClient(config) ==
    /\ client' = Construct(config)
    /\ UNCHANGED <<req, la, repo, att, table>>

\* no call of airtableRequest is under way
Quiescent == \A s \in Slots : req[s].pc = "idle"

\* the caller assigns to a property of the config object it passed
MutateConfig(key, value) ==
    /\ client.state = "ready"
    /\ client.held[key] # value
    /\ client' = [client EXCEPT !.held[key] = value]
    /\ UNCHANGED <<req, la, repo, att, table>>

RequestArgsFromHeld(url, method, body) ==
    [url |-> url, method |-> method,
     config |-> [token |-> client.held.token.v,
                 timeoutMs |-> Coalesce(client.held.timeoutMs, JNum(DefaultTimeoutMs)).v],
     body |-> body]

RequestArgs(url, method, body) ==
    [url |-> url, method |-> method, config |-> client.reqConfig, body |-> body]

FieldsBody(fields) == [t |-> "object", fields |-> fields, circular |-> fields.circular]

\* the arguments of a call of airtableRequest, with the client method that
\* made the call and the arguments the caller gave to it
Invoked(op, tableName, recordId, input, args) ==
    [url |-> args.url, method |-> args.method, config |-> args.config, body |-> args.body,
     call |-> [op |-> op, tableName |-> tableName, recordId |-> recordId, input |-> input]]

listRecordsArgs(tableName, params) ==
    Invoked("listRecords", tableName, <<>>, params,
        RequestArgs(Url(client.baseUrl, buildTablePath(tableName), buildListQuery(params)),
                    "GET", Undefined))

listRecords(s, tableName, params) ==
    /\ client.state = "ready"
    /\ ReqStart(s, listRecordsArgs(tableName, params))
    /\ UNCHANGED <<client, la, repo, att, table>>

getRecordArgs(tableName, recordId) ==
    Invoked("getRecord", tableName, recordId, Undefined,
        RequestArgs(Url(client.baseUrl, buildRecordPath(tableName, recordId), <<>>),
                    "GET", Undefined))

getRecord(s, tableName, recordId) ==
    /\ client.state = "ready"
    /\ ReqStart(s, getRecordArgs(tableName, recordId))
    /\ UNCHANGED <<client, la, repo, att, table>>

createRecordArgs(tableName, fields) ==
    Invoked("createRecord", tableName, <<>>, fields,
        RequestArgs(Url(client.baseUrl, buildTablePath(tableName), <<>>),
                    "POST", FieldsBody(fields)))

createRecord(s, tableName, fields) ==
    /\ client.state = "ready"
    /\ ReqStart(s, createRecordArgs(tableName, fields))
    /\ UNCHANGED <<client, la, repo, att, table>>

updateRecordArgs(tableName, recordId, fields) ==
    Invoked("updateRecord", tableName, recordId, fields,
        RequestArgs(Url(client.baseUrl, buildRecordPath(tableName, recordId), <<>>),
                    "PATCH", FieldsBody(fields)))

updateRecord(s, tableName, recordId, fields) ==
    /\ client.state = "ready"
    /\ ReqStart(s, updateRecordArgs(tableName, recordId, fields))
    /\ UNCHANGED <<client, la, repo, att, table>>

deleteRecordArgs(tableName, recordId) ==
    Invoked("deleteRecord", tableName, recordId, Undefined,
        RequestArgs(Url(client.baseUrl, buildRecordPath(tableName, recordId), <<>>),
                    "DELETE", Undefined))

deleteRecord(s, tableName, recordId) ==
    /\ client.state = "ready"
    /\ ReqStart(s, deleteRecordArgs(tableName, recordId))
    /\ UNCHANGED <<client, la, repo, att, table>>

\* the caller has observed the settled promise; the call's state is discarded
Observe(s) ==
    /\ req[s].pc \in {"ok", "failed"}
    /\ ~(la.pc = "await" /\ la.slot = s)
    /\ ~(repo.pc # "idle" /\ repo.slot = s)
    /\ att[s].pc = "idle"
    /\ req' = [req EXCEPT ![s] = IdleReq]
    /\ UNCHANGED <<client, la, repo, att, table>>

(***************************************************************************)
(* pagination.ts: listAllRecords.                                           *)
(*   pc      idle | await (await client.listRecords) | done | failed        *)
(*   slot    the call of airtableRequest the driver awaits                  *)
(*   calls   the arguments of the calls of client.listRecords so far, with  *)
(*           the URL each produced                                          *)
(*   pages   the pages received so far                                      *)
(*   entry   the function the caller entered the run by                     *)
(*   asked   the options argument the caller gave to that function          *)
(***************************************************************************)
IdleLA ==
    [pc |-> "idle", slot |-> "a", params |-> Undefined, maxTotalRecords |-> 0,
     out |-> <<>>, offset |-> Undefined, calls |-> <<>>, pages |-> <<>>,
     result |-> Undefined, err |-> Undefined,
     entry |-> "none", asked |-> Undefined]

EmptyParams ==
    ListParams(Undefined, Undefined, Undefined, Undefined, Undefined, <<>>)

SpreadOffsetFirst(params, offset) ==
    IF Nullish(params) THEN [EmptyParams EXCEPT !.offset = offset]
    ELSE IF params.offset = Undefined THEN [params EXCEPT !.offset = offset]
    ELSE params

SpreadOffsetOnly(params, offset) == [EmptyParams EXCEPT !.offset = offset]

\* { ...(params ?? {}), offset }
Spread(params, offset) ==
    [Coalesce(params, EmptyParams) EXCEPT !.offset = offset]

PushFront(out, records) == records \o out

\* out.push(...records)
Push(out, records) == out \o records

ExceedsOrReaches(length, maxTotalRecords) == length >= maxTotalRecords

ExceedsNever(length, maxTotalRecords) == FALSE

ExceedsByTwo(length, maxTotalRecords) == length > maxTotalRecords + 1

\* out.length > maxTotalRecords
Exceeds(length, maxTotalRecords) == length > maxTotalRecords

LastPageOrThirdCall(page) == Falsy(page.offset) \/ Len(la.calls) >= 3

LastPageOrEmpty(page) == Falsy(page.offset) \/ Len(page.records) = 0

\* if (!page.offset) break
LastPage(page) == Falsy(page.offset)

ResolvedEarly(r) == r.pc \in {"reading", "ok"}

\* await: the awaited call has resolved / rejected
Resolved(r) == r.pc = "ok"
Rejected(r) == r.pc = "failed"

CeilingPrefix ==
    <<"l","i","s","t","A","l","l","R","e","c","o","r","d","s",":"," ",
      "e","x","c","e","e","d","e","d"," ",
      "m","a","x","T","o","t","a","l","R","e","c","o","r","d","s"," ","(">>
CeilingSuffix ==
    <<")","."," ","A","d","d"," ","f","i","l","t","e","r","s"," ","o","r"," ",
      "i","n","c","r","e","a","s","e"," ","t","h","e"," ","l","i","m","i","t"," ",
      "e","x","p","l","i","c","i","t","l","y",".">>

CeilingError(maxTotalRecords) ==
    RawError("Error", JStr(CeilingPrefix \o Digits(maxTotalRecords) \o CeilingSuffix))

NotIterableError == RawError("TypeError", JStr(<<"n","o","t"," ","i","t","e","r","a","b","l","e">>))

TableName == <<"T">>

\* a slot for a new call, once the awaited call of the driver is released
Released(rq, s) == [rq EXCEPT ![s] = IF Settled(rq[s]) THEN IdleReq ELSE rq[s]]
FreeSlot(rq) == CHOOSE s \in Slots : rq[s].pc = "idle"

\* client.listRecords(tableName, {...params, offset}) up to its await
IssueList(rq, callParams) ==
    [rq EXCEPT ![FreeSlot(rq)] = Started(listRecordsArgs(TableName, callParams))]

CallEntry(callParams) ==
    [params |-> callParams, url |-> listRecordsArgs(TableName, callParams).url]

\* listAllRecords(args) up to the first await, entered directly or through a
\* wrapper that was given the options argument asked
LA_Enter(entry, asked, params, options) ==
    /\ la.pc = "idle"
    /\ client.state = "ready"
    /\ Quiescent
    /\ LET callParams == Spread(params, Undefined)
       IN  /\ la' = [IdleLA EXCEPT
                       !.pc = "await",
                       !.slot = FreeSlot(req),
                       !.params = params,
                       !.maxTotalRecords =
                           Coalesce(Get(options, "maxTotalRecords"),
                                    JNum(DefaultMaxTotalRecords)).v,
                       !.calls = <<CallEntry(callParams)>>,
                       !.entry = entry,
                       !.asked = asked]
           /\ req' = IssueList(req, callParams)
    /\ UNCHANGED <<client, att, table>>

\* listAllRecords({client, tableName, params, options})
LA_Start(params, options) ==
    /\ LA_Enter("listAllRecords", options, params, options)
    /\ UNCHANGED repo

\* listAll(client, tableName, params): the function has three parameters, a
\* fourth argument is dropped and listAllRecords is called without options
listAll(params, options) ==
    /\ LA_Enter("listAll", options, params, Undefined)
    /\ UNCHANGED repo

IsPage(page) == page.t = "object" /\ "records" \in DOMAIN page

\* The awaited list call resolved: one iteration of the loop from the
\* append to the next await, the return or the throw.
LA_Page ==
    /\ la.pc = "await"
    /\ Resolved(req[la.slot])
    /\ LET page == req[la.slot].result
           rq == Released(req, la.slot)
       IN  IF ~IsPage(page)
             THEN /\ la' = [la EXCEPT !.pc = "failed", !.err = NotIterableError]
                  /\ req' = rq
           ELSE LET out == Push(la.out, page.records)
                    pages == Append(la.pages, page)
                IN  IF Exceeds(Len(out), la.maxTotalRecords)
                      THEN /\ la' = [la EXCEPT !.pc = "failed", !.out = out, !.pages = pages,
                                               !.err = CeilingError(la.maxTotalRecords)]
                           /\ req' = rq
                    ELSE IF LastPage(page)
                      THEN /\ la' = [la EXCEPT !.pc = "done", !.out = out, !.pages = pages,
                                               !.result = out]
                           /\ req' = rq
                    ELSE LET callParams == Spread(la.params, page.offset)
                         IN  /\ Len(la.calls) < MaxListCalls
                             /\ \E s \in Slots : rq[s].pc = "idle"
                             /\ la' = [la EXCEPT !.out = out, !.pages = pages,
                                                 !.offset = page.offset,
                                                 !.slot = FreeSlot(rq),
                                                 !.calls = Append(@, CallEntry(callParams))]
                             /\ req' = IssueList(rq, callParams)
    /\ UNCHANGED <<client, repo, att, table>>

LA_ErrorReturnsPartial ==
    /\ la.pc = "await"
    /\ Rejected(req[la.slot])
    /\ la' = [la EXCEPT !.pc = "done", !.result = la.out]
    /\ req' = Released(req, la.slot)
    /\ UNCHANGED <<client, repo, att, table>>

\* The awaited list call rejected: listAllRecords rejects with the same error.
LA_Error ==
    /\ la.pc = "await"
    /\ Rejected(req[la.slot])
    /\ la' = [la EXCEPT !.pc = "failed", !.err = req[la.slot].err]
    /\ req' = Released(req, la.slot)
    /\ UNCHANGED <<client, repo, att, table>>

\* the caller has observed the outcome of listAllRecords
LA_Observe ==
    /\ la.pc \in {"done", "failed"}
    /\ la.entry \in {"listAllRecords", "listAll"}
    /\ la' = IdleLA
    /\ UNCHANGED <<client, req, repo, att, table>>

(***************************************************************************)
(* createTableRepo.ts: the repository over one table and one mapper.        *)
(*   pc      idle | await (a client method) | awaitAll (listAllRecords)     *)
(*           | done | failed                                                *)
(*   op      the repository method the caller invoked                       *)
(*   slot    the call of airtableRequest the method awaits                  *)
(*   applied how many times mapper.fromRecord has been called               *)
(***************************************************************************)
MainRepoSlot == "a"

IdleRepo ==
    [pc |-> "idle", op |-> "none", slot |-> "a", recordId |-> <<>>, model |-> Undefined,
     params |-> Undefined, options |-> Undefined, result |-> Undefined, err |-> Undefined,
     applied |-> 0]

\* the mapper the repository was created with: a model is a name, the fields
\* of a model hold the name in a column, the model of a record wraps the record
toFields(model) == [t |-> "object", circular |-> FALSE, Name |-> model.name]
fromRecord(record) == [t |-> "model", of |-> record]

\* page.records.map on a value without records
NoRecordsError == RawError("TypeError", JStr(<<"m","a","p">>))

\* records.map(mapper.fromRecord)
MapRecords(records) == [i \in 1..Len(records) |-> fromRecord(records[i])]

RepoReturnsReversed(op, value) ==
    CASE op \in {"get", "create", "update"} -> fromRecord(value)
      [] op = "listAll" ->
            [i \in 1..Len(value) |-> fromRecord(value[Len(value) + 1 - i])]
      [] op = "listPage" ->
            [t |-> "object", records |-> MapRecords(value.records), offset |-> value.offset]
      [] op = "delete" -> value

\* what a repository method returns for the value its client call resolved to
RepoReturns(op, value) ==
    CASE op \in {"get", "create", "update"} -> fromRecord(value)
      [] op = "listAll" -> MapRecords(value)
      [] op = "listPage" ->
            [t |-> "object", records |-> MapRecords(value.records), offset |-> value.offset]
      [] op = "delete" -> value

\* the number of calls of mapper.fromRecord that return makes
RepoApplies(op, value) ==
    CASE op \in {"get", "create", "update"} -> 1
      [] op = "listAll" -> Len(value)
      [] op = "listPage" -> Len(value.records)
      [] op = "delete" -> 0

\* a repository method up to its await of a client method
RepoCall(op, recordId, model, params, args) ==
    /\ repo.pc = "idle"
    /\ la.pc = "idle"
    /\ client.state = "ready"
    /\ Quiescent
    /\ repo' = [IdleRepo EXCEPT !.pc = "await", !.op = op, !.slot = MainRepoSlot,
                                !.recordId = recordId, !.model = model, !.params = params]
    /\ ReqStart(MainRepoSlot, args)
    /\ UNCHANGED <<client, la, att, table>>

Repo_listPage(params) ==
    RepoCall("listPage", <<>>, Undefined, params, listRecordsArgs(TableName, params))

Repo_get(recordId) ==
    RepoCall("get", recordId, Undefined, Undefined, getRecordArgs(TableName, recordId))

Repo_create(model) ==
    RepoCall("create", <<>>, model, Undefined, createRecordArgs(TableName, toFields(model)))

Repo_update(recordId, patch) ==
    RepoCall("update", recordId, patch, Undefined,
             updateRecordArgs(TableName, recordId, toFields(patch)))

Repo_delete(recordId) ==
    RepoCall("delete", recordId, Undefined, Undefined, deleteRecordArgs(TableName, recordId))

\* repo.listAll(params, options) up to the first await of listAllRecords
Repo_listAll(params, options) ==
    /\ repo.pc = "idle"
    /\ LA_Enter("repo.listAll", options, params, options)
    /\ repo' = [IdleRepo EXCEPT !.pc = "awaitAll", !.op = "listAll",
                                !.params = params, !.options = options]

\* the awaited client call settled: apply the mapper and return, or reject
\* with the error of the client call
Repo_Settle ==
    /\ repo.pc = "await"
    /\ Settled(req[repo.slot])
    /\ LET r == req[repo.slot]
       IN  repo' = IF Rejected(r) THEN [repo EXCEPT !.pc = "failed", !.err = r.err]
                   ELSE IF repo.op = "listPage" /\ ~IsPage(r.result)
                     THEN [repo EXCEPT !.pc = "failed", !.err = NoRecordsError]
                   ELSE [repo EXCEPT !.pc = "done",
                                     !.result = RepoReturns(repo.op, r.result),
                                     !.applied = RepoApplies(repo.op, r.result)]
    /\ UNCHANGED <<client, req, la, att, table>>

\* the awaited listAllRecords settled
Repo_SettleAll ==
    /\ repo.pc = "awaitAll"
    /\ la.pc \in {"done", "failed"}
    /\ repo' = IF la.pc = "failed" THEN [repo EXCEPT !.pc = "failed", !.err = la.err]
               ELSE [repo EXCEPT !.pc = "done",
                                 !.result = RepoReturns("listAll", la.result),
                                 !.applied = RepoApplies("listAll", la.result)]
    /\ UNCHANGED <<client, req, la, att, table>>

\* the caller has observed the outcome of the repository method
Repo_Observe ==
    /\ repo.pc \in {"done", "failed"}
    /\ repo' = IdleRepo
    /\ la' = IdleLA
    /\ req' = [s \in Slots |-> IdleReq]
    /\ UNCHANGED <<client, att, table>>

(***************************************************************************)
(* attachments.ts: addAttachmentToRecord.  Call c of the helper uses slot c *)
(* for its client calls.                                                    *)
(*   att[c].pc    idle | get (await client.getRecord) | update (await       *)
(*                client.updateRecord) | upload (inside uploadLocalFile)    *)
(*                | post (await client._request) | done | failed            *)
(*   att[c].obj   the attachment object the call works with                 *)
(*   att[c].record the value getRecord resolved with                        *)
(*   att[c].ops   the client methods the call has invoked, in order         *)
(*   table.field  the attachment field of the record as the server holds it *)
(*   table.applied the calls whose PATCH the server has applied             *)
(***************************************************************************)
IdleAtt ==
    [pc |-> "idle", args |-> Undefined, obj |-> Undefined, record |-> Undefined,
     existing |-> Undefined,
     sentValue |-> Undefined, ops |-> <<>>, result |-> Undefined, err |-> Undefined]

EmptyTable == [field |-> Undefined, applied |-> {}]

HttpPrefix == <<"h","t","t","p",":","/","/">>
HttpsPrefix == <<"h","t","t","p","s",":","/","/">>

StartsWith(str, prefix) ==
    Len(str) >= Len(prefix) /\ SubSeq(str, 1, Len(prefix)) = prefix

\* str.startsWith("http://") || str.startsWith("https://")
isUrl(str) == StartsWith(str, HttpPrefix) \/ StartsWith(str, HttpsPrefix)

\* a || b
Or(a, b) == IF Truthy(a) THEN a ELSE b

\* an AirtableAttachment object
Attachment(url, filePath, filename, size, type) ==
    [t |-> "object", url |-> url, filePath |-> filePath, filename |-> filename,
     size |-> size, type |-> type]

\* a JavaScript array
Arr(items) == [t |-> "array", items |-> items]

AttachmentObjPrefersDirect(args) ==
    Attachment(Or(args.url, Get(args.attachment, "url")),
               Or(args.filePath, Get(args.attachment, "filePath")),
               args.filename, args.size, Or(args.type, args.contentType))

\* attachment || { url, filePath, filename, size, type: type || contentType }
AttachmentObj(args) ==
    Or(args.attachment,
       Attachment(args.url, args.filePath, args.filename, args.size,
                  Or(args.type, args.contentType)))

EitherRequiredError ==
    RawError("Error", JStr(<<"E","i","t","h","e","r"," ","'","u","r","l","'"," ","o","r"," ","'","f","i","l","e","P","a","t","h","'"," ","m","u","s","t"," ","b","e"," ","p","r","o","v","i","d","e","d">>))
UrlRequiredError ==
    RawError("Error", JStr(<<"'","u","r","l","'"," ","i","s"," ","r","e","q","u","i","r","e","d">>))
InvalidUrlError(url) ==
    RawError("Error", JStr(<<"I","n","v","a","l","i","d"," ","U","R","L"," ","f","o","r","m","a","t","."," ","G","o","t",":"," ">> \o url))
NoFieldsError ==
    RawError("TypeError", JStr(<<"C","a","n","n","o","t"," ","r","e","a","d"," ","p","r","o","p","e","r","t","i","e","s"," ","o","f"," ","u","n","d","e","f","i","n","e","d">>))

RecordId == <<"r">>
FieldName == "Attachments"

\* { [fieldName]: updatedAttachments }
AttachmentFields(updatedAttachments) ==
    [t |-> "object", circular |-> FALSE, Attachments |-> updatedAttachments]

AppendFirst(existing, obj) == Arr(<<obj>> \o existing.items)

\* [...existingAttachments, attachmentObj]
AppendLast(existing, obj) == Arr(Append(existing.items, obj))

MaxAttachments == 2

\* the number of attachments the field holds
Held(field) == IF field.t = "array" THEN Len(field.items) ELSE 0

\* addAttachmentToRecord(args) up to its first await, or to its throw
Att_Call(c, args) ==
    /\ att[c].pc = "idle"
    /\ Held(table.field) < MaxAttachments
    /\ req[c].pc = "idle"
    /\ la.pc = "idle"
    /\ repo.pc = "idle"
    /\ client.state = "ready"
    /\ LET obj == AttachmentObj(args)
           a == [IdleAtt EXCEPT !.args = args, !.obj = obj]
       IN  IF Falsy(obj.url) /\ Falsy(obj.filePath)
             THEN /\ att' = [att EXCEPT ![c] = [a EXCEPT !.pc = "failed",
                                                          !.err = EitherRequiredError]]
                  /\ req' = req
           ELSE IF Truthy(obj.filePath)
             THEN /\ att' = [att EXCEPT ![c] = [a EXCEPT !.pc = "upload"]]
                  /\ req' = req
           ELSE IF Falsy(obj.url)
             THEN /\ att' = [att EXCEPT ![c] = [a EXCEPT !.pc = "failed",
                                                          !.err = UrlRequiredError]]
                  /\ req' = req
           ELSE IF ~isUrl(obj.url.v)
             THEN /\ att' = [att EXCEPT ![c] = [a EXCEPT !.pc = "failed",
                                                          !.err = InvalidUrlError(obj.url.v)]]
                  /\ req' = req
           ELSE /\ att' = [att EXCEPT ![c] = [a EXCEPT !.pc = "get",
                                                        !.ops = <<"getRecord">>]]
                /\ req' = [req EXCEPT ![c] = Started(getRecordArgs(TableName, RecordId))]
    /\ UNCHANGED <<client, la, repo, table>>

\* the awaited getRecord settled: read the field, append, call updateRecord
Att_GotRecord(c) ==
    /\ att[c].pc = "get"
    /\ Settled(req[c])
    /\ LET r == req[c]
           fields == Get(r.result, "fields")
           existing == Coalesce(Get(fields, FieldName), Arr(<<>>))
       IN  IF Rejected(r)
             THEN /\ att' = [att EXCEPT ![c].pc = "failed", ![c].err = r.err]
                  /\ req' = [req EXCEPT ![c] = IdleReq]
           ELSE IF fields.t # "object"
             THEN /\ att' = [att EXCEPT ![c].pc = "failed", ![c].err = NoFieldsError]
                  /\ req' = [req EXCEPT ![c] = IdleReq]
           ELSE IF existing.t # "array"
             THEN /\ att' = [att EXCEPT ![c].pc = "failed", ![c].err = NotIterableError]
                  /\ req' = [req EXCEPT ![c] = IdleReq]
           ELSE LET updated == AppendLast(existing, att[c].obj)
                IN  /\ att' = [att EXCEPT ![c].pc = "update",
                                          ![c].record = r.result,
                                          ![c].existing = existing,
                                          ![c].sentValue = updated,
                                          ![c].ops = Append(@, "updateRecord")]
                    /\ req' = [req EXCEPT ![c] = Started(updateRecordArgs(
                                   TableName, RecordId, AttachmentFields(updated)))]
    /\ UNCHANGED <<client, la, repo, table>>

\* the awaited updateRecord settled: its outcome is the outcome of the call
Att_Updated(c) ==
    /\ att[c].pc = "update"
    /\ Settled(req[c])
    /\ att' = IF Rejected(req[c])
                THEN [att EXCEPT ![c].pc = "failed", ![c].err = req[c].err]
                ELSE [att EXCEPT ![c].pc = "done", ![c].result = req[c].result]
    /\ req' = [req EXCEPT ![c] = IdleReq]
    /\ table' = [table EXCEPT !.applied = @ \ {c}]
    /\ UNCHANGED <<client, la, repo>>

(***************************************************************************)
(* Inputs of the request-level specification.                               *)
(***************************************************************************)
TokenValues == {Undefined, JStr(<<>>), JStr(<<"t">>)}
BaseIdValues == {Undefined, JStr(<<>>), JStr(<<"b">>)}
ApiUrlValues == {Undefined, JStr(<<"h", "/">>)}
TimeoutValues == {Undefined, JNum(10)}

Configs ==
    [token : TokenValues, baseId : BaseIdValues, apiUrl : ApiUrlValues,
     timeoutMs : TimeoutValues]

TableNames == {<<"T">>}
RecordIds == {<<"r">>}
FieldsValues == {[t |-> "object", circular |-> FALSE], [t |-> "object", circular |-> TRUE]}
ParamsValues ==
    {Undefined,
     ListParams(JStr(<<"v">>), Undefined, Undefined, JNum(5), Undefined, <<>>)}

Statuses == {200, 204, 400, 401, 403, 404, 408, 422, 429, 500}
StatusTexts == {<<>>, <<"E", "r", "r">>}
ContentTypes == {JNull, JStr(ApplicationJson), JStr(JsonCharset), JStr(TextPlain)}

ErrObj(type, message) == [t |-> "object", type |-> type, message |-> message]
Body(error) == [t |-> "object", error |-> error]

JsonBodies ==
    {Body(ErrObj(JStr(<<"T">>), JStr(<<"M">>))),
     Body(ErrObj(Undefined, JStr(<<"M">>))),
     Body(ErrObj(JStr(<<"T">>), Undefined)),
     Body(ErrObj(JStr(<<"T">>), JNum(7))),
     Body(JStr(<<"M">>)),
     Body(Undefined),
     JArr,
     JNull}

Texts == {JsonText(v) : v \in JsonBodies} \cup {PlainText(<<>>), PlainText(<<"x">>)}

TransportErrors ==
    {RawError("TypeError", JStr(<<"f">>)), RawError("Error", Undefined)}

MainSlot == "a"

Init ==
    /\ client = NoClient
    /\ req = [s \in Slots |-> IdleReq]
    /\ la = IdleLA
    /\ repo = IdleRepo
    /\ att = [c \in Slots |-> IdleAtt]
    /\ table = EmptyTable

\* The caller constructs clients between calls.
NewClient == \E config \in Configs : Quiescent /\ createAirtableClient(config)

Next ==
    \/ NewClient
    \/ \E tn \in TableNames, p \in ParamsValues : listRecords(MainSlot, tn, p)
    \/ \E tn \in TableNames, id \in RecordIds : getRecord(MainSlot, tn, id)
    \/ \E tn \in TableNames, f \in FieldsValues : createRecord(MainSlot, tn, f)
    \/ \E tn \in TableNames, id \in RecordIds, f \in FieldsValues :
          updateRecord(MainSlot, tn, id, f)
    \/ \E tn \in TableNames, id \in RecordIds : deleteRecord(MainSlot, tn, id)
    \/ \E st \in Statuses, tx \in StatusTexts, ct \in ContentTypes :
          FetchResolve(MainSlot, st, tx, ct)
    \/ \E text \in Texts : BodyResolve(MainSlot, text)
    \/ \E err \in TransportErrors : TransportFail(MainSlot, err)
    \/ TimerFire(MainSlot)
    \/ AbortReject(MainSlot)
    \/ Observe(MainSlot)

Spec == Init /\ [][Next]_vars

\* The server never completes a response (headers may arrive, the body never
\* does) and the transport reports no failure; the event loop runs a due timer
\* and delivers the rejection of an aborted fetch.
NextStalled ==
    \/ NewClient
    \/ \E tn \in TableNames, p \in ParamsValues : listRecords(MainSlot, tn, p)
    \/ \E tn \in TableNames, id \in RecordIds : getRecord(MainSlot, tn, id)
    \/ \E tn \in TableNames, f \in FieldsValues : createRecord(MainSlot, tn, f)
    \/ \E tn \in TableNames, id \in RecordIds, f \in FieldsValues :
          updateRecord(MainSlot, tn, id, f)
    \/ \E tn \in TableNames, id \in RecordIds : deleteRecord(MainSlot, tn, id)
    \/ \E st \in Statuses, tx \in StatusTexts, ct \in ContentTypes :
          FetchResolve(MainSlot, st, tx, ct)
    \/ TimerFire(MainSlot)
    \/ AbortReject(MainSlot)
    \/ Observe(MainSlot)

SpecStalled ==
    /\ Init
    /\ [][NextStalled]_vars
    /\ WF_vars(TimerFire(MainSlot))
    /\ WF_vars(AbortReject(MainSlot))

(***************************************************************************)
(* Properties of the request executor and of the client facade.            *)
(***************************************************************************)
TimedOut(r) ==
    /\ r.pc = "failed"
    /\ r.aborted
    /\ r.err.name = "AirtableHttpError"
    /\ r.err.status = 408
    /\ Includes(r.err.message, Digits(r.args.config.timeoutMs))

\* C4: a call whose timer fired before it completed fails with a generic
\* AirtableHttpError of status 408 whose message contains timeoutMs, and a call
\* whose request never completes always reaches that failure.
C4_Timeout ==
    /\ [](\A s \in Slots : (req[s].aborted /\ Settled(req[s])) => TimedOut(req[s]))
    /\ (InFlight(req[MainSlot]) ~> TimedOut(req[MainSlot]))

C4_Witness ==
    /\ TimedOut(req[MainSlot])
    /\ req[MainSlot].args.config.timeoutMs = 10
    /\ req[MainSlot].res = NoRes

KindOfStatus(status) ==
    CASE status \in {401, 403} -> "AirtableAuthError"
      [] status = 404 -> "AirtableNotFoundError"
      [] status = 422 -> "AirtableValidationError"
      [] status = 429 -> "AirtableRateLimitError"
      [] OTHER -> "AirtableHttpError"

\* C5: a call ended by a response fails exactly when the status is not 2xx,
\* and then with the error kind of the status: 401/403 Auth, 404 NotFound,
\* 422 Validation, 429 RateLimit, any other status (408 included) generic Http.
C5_StatusKind ==
    \A s \in Slots :
        req[s].cause = "response" =>
            IF req[s].res.status \in 200..299 THEN req[s].pc = "ok"
            ELSE /\ req[s].pc = "failed"
                 /\ req[s].err.name = KindOfStatus(req[s].res.status)
                 /\ req[s].err.status = req[s].res.status

C5_Witness ==
    \E s \in Slots :
        /\ req[s].cause = "response"
        /\ req[s].res.status = 429
        /\ req[s].err.name = "AirtableRateLimitError"

\* C6: a call ended by a transport failure fails with an AirtableNetworkError
\* of status 503 whose details are the original failure.
C6_NetworkError ==
    \A s \in Slots :
        req[s].cause = "transport" =>
            /\ req[s].pc = "failed"
            /\ req[s].err.http
            /\ req[s].err.name = "AirtableNetworkError"
            /\ req[s].err.status = 503
            /\ req[s].err.details = req[s].thrown
            /\ ~req[s].thrown.http

C6_Witness ==
    \E s \in Slots :
        /\ req[s].cause = "transport"
        /\ req[s].thrown = RawError("TypeError", JStr(<<"f">>))
        /\ req[s].err.name = "AirtableNetworkError"

\* the body of a response as the classifier sees it: the JSON value when the
\* content type says JSON and the text parses, nothing usable otherwise
C7_Body(r) ==
    IF /\ r.res.contentType.t = "string"
       /\ Includes(r.res.contentType.v, ApplicationJson)
       /\ r.res.text.json
      THEN r.res.text.val
      ELSE Undefined

C7_StatusLine(status, statusText) ==
    IF Trim(statusText) = <<>> THEN Digits(status)
    ELSE Digits(status) \o <<" ">> \o Trim(statusText)

C7_Expected(r) ==
    LET b == C7_Body(r)
        e == IF b.t = "object" THEN b.error ELSE Undefined
        m == IF e.t = "object" THEN e.message ELSE Undefined
        ty == IF e.t = "object" THEN e.type ELSE Undefined
    IN  IF m.t = "string" /\ ty.t = "string" THEN ty.v \o <<":", " ">> \o m.v
        ELSE IF m.t = "string" THEN m.v
        ELSE C7_StatusLine(r.res.status, r.res.statusText)

\* C7: the message of an error raised for a non-2xx response is
\* "{type}: {message}" when the parsed body has string error.type and
\* error.message, error.message alone when only that is a string, and
\* "{status} {statusText}" trimmed otherwise.
C7_Message ==
    \A s \in Slots :
        (req[s].cause = "response" /\ req[s].pc = "failed") =>
            req[s].err.message = C7_Expected(req[s])

C7_Witness ==
    \E s \in Slots :
        /\ req[s].cause = "response"
        /\ req[s].pc = "failed"
        /\ req[s].res.text = JsonText(Body(ErrObj(JStr(<<"T">>), JStr(<<"M">>))))
        /\ req[s].err.message = <<"T", ":", " ", "M">>

\* C8 as stated: every settled call has issued exactly one HTTP request.
C8_ExactlyOne ==
    \A s \in Slots : Settled(req[s]) => Len(req[s].sent) = 1

\* C8 as amended: a call issues one HTTP request when its body is absent or
\* serializable and none when JSON.stringify throws, and never a second one,
\* whatever its outcome.
C8_AtMostOne ==
    \A s \in Slots :
        req[s].pc # "idle" =>
            Len(req[s].sent) = (IF req[s].cause = "stringify" THEN 0 ELSE 1)

C8_Witness ==
    \E s \in Slots :
        /\ req[s].pc = "failed"
        /\ req[s].cause = "response"
        /\ req[s].res.status = 429
        /\ Len(req[s].sent) = 1

MissingOrEmpty(v) == v = Undefined \/ v = JStr(<<>>)

\* C9: construction throws when token or baseId is missing or empty, and a
\* construction step, successful or not, leaves every request and timer as
\* it was.
C9_Construction ==
    /\ []((client.state # "none"
            /\ (MissingOrEmpty(client.config.token) \/ MissingOrEmpty(client.config.baseId)))
          => client.state = "threw")
    /\ [][client' # client => req' = req]_vars

C9_Witness ==
    /\ client.state = "threw"
    /\ client.config.token = JStr(<<"t">>)
    /\ client.config.baseId = JStr(<<>>)
    /\ \A s \in Slots : req[s].sent = <<>> /\ req[s].timer = "none"

(***************************************************************************)
(* The pagination specification: one client, runs of listAllRecords against *)
(* a server that answers each list call with a page, an error status, a     *)
(* transport failure or nothing at all.                                     *)
(***************************************************************************)
PageConfig ==
    [token |-> JStr(<<"t">>), baseId |-> JStr(<<"b">>), apiUrl |-> Undefined,
     timeoutMs |-> Undefined]

Offsets == {Undefined, JStr(<<>>), JStr(<<"o", "1">>), JStr(<<"o", "2">>)}

\* the page answering list call number k: n records and a continuation offset
Page(k, n, offset) ==
    [t |-> "object", records |-> [j \in 1..n |-> <<k, j>>], offset |-> offset]

CallerParams ==
    {Undefined,
     ListParams(JStr(<<"v">>), Undefined, Undefined, Undefined, Undefined, <<>>),
     ListParams(Undefined, Undefined, Undefined, Undefined, JStr(<<"x">>), <<>>),
     ListParams(JStr(<<"v">>), JStr(<<"f">>), JNum(0), JNum(5), JStr(<<"x">>),
                <<[field |-> JStr(<<"N">>), direction |-> Undefined]>>)}

CallerOptions ==
    {Undefined} \cup {[t |-> "object", maxTotalRecords |-> JNum(k)] : k \in 0..MaxCeiling}

PageStatuses == {200, 429}

ListTexts(r) ==
    IF ResOk(r.res.status)
      THEN {JsonText(Page(Len(la.calls), n, o)) : n \in 0..MaxPageSize, o \in Offsets}
           \cup {PlainText(<<"x">>)}
      ELSE {JsonText(Body(ErrObj(JStr(<<"T">>), JStr(<<"M">>))))}

\* the server completes the response to the list call in slot s
ServePage(s) ==
    /\ req[s].pc = "reading"
    /\ \E text \in ListTexts(req[s]) : BodyResolve(s, text)

InitPage ==
    /\ client = Construct(PageConfig)
    /\ req = [s \in Slots |-> IdleReq]
    /\ la = IdleLA
    /\ repo = IdleRepo
    /\ att = [c \in Slots |-> IdleAtt]
    /\ table = EmptyTable

NextPage ==
    \/ \E p \in CallerParams, o \in CallerOptions : LA_Start(p, o)
    \/ LA_Page
    \/ LA_Error
    \/ LA_Observe
    \/ \E s \in Slots, st \in PageStatuses :
          FetchResolve(s, st, <<>>, JStr(ApplicationJson))
    \/ \E s \in Slots : ServePage(s)
    \/ \E s \in Slots : TransportFail(s, RawError("TypeError", JStr(<<"f">>)))
    \/ \E s \in Slots : TimerFire(s)
    \/ \E s \in Slots : AbortReject(s)

SpecPage == InitPage /\ [][NextPage]_vars

(***************************************************************************)
(* Properties of the pagination driver.                                     *)
(***************************************************************************)
\* a page carries a continuation offset
HasOffset(page) == page.offset # Undefined /\ page.offset # JStr(<<>>)

RECURSIVE AllRecords(_)
\* the records of a sequence of pages, in page order
AllRecords(pages) ==
    IF pages = <<>> THEN <<>> ELSE Head(pages).records \o AllRecords(Tail(pages))

Front(seq) == SubSeq(seq, 1, Len(seq) - 1)
Last(seq) == seq[Len(seq)]

ListsInFlight == {s \in Slots : InFlight(req[s])}

\* C1: when the Nth page is the first without continuation offset and the
\* record count stays within maxTotalRecords, listAllRecords returns the
\* records of pages 1..N in page order after exactly N list calls.
C1_Concatenation ==
    /\ la.pc = "done" =>
          /\ la.pages # <<>>
          /\ ~HasOffset(Last(la.pages))
          /\ \A i \in 1..(Len(la.pages) - 1) : HasOffset(la.pages[i])
          /\ la.result = AllRecords(la.pages)
          /\ Len(la.calls) = Len(la.pages)
    /\ (/\ la.pages # <<>>
        /\ ~HasOffset(Last(la.pages))
        /\ Len(AllRecords(la.pages)) <= la.maxTotalRecords) => la.pc = "done"

C1_Witness ==
    /\ la.pc = "done"
    /\ Len(la.pages) = 3
    /\ la.result = <<<<1, 1>>, <<2, 1>>, <<2, 2>>, <<3, 1>>>>

\* C2: over pages that all carry an offset, listAllRecords fails with the
\* ceiling error exactly at the first page whose append brings the count above
\* maxTotalRecords, with no list call issued after that page; the count at the
\* failure is the record count of the pages received.
C2_Ceiling ==
    LET allOffset == \A i \in 1..Len(la.pages) : HasOffset(la.pages[i])
        count == Len(AllRecords(la.pages))
    IN  /\ (la.pc = "failed" /\ la.err.name = "Error" /\ allOffset) =>
              /\ count > la.maxTotalRecords
              /\ Len(AllRecords(Front(la.pages))) <= la.maxTotalRecords
              /\ Len(la.out) = count
              /\ Len(la.calls) = Len(la.pages)
              /\ ListsInFlight = {}
              /\ Includes(la.err.message.v, <<"(">> \o Digits(la.maxTotalRecords) \o <<")">>)
        /\ (la.pages # <<>> /\ allOffset /\ count > la.maxTotalRecords) =>
              (la.pc = "failed" /\ la.err.name = "Error")

C2_Witness ==
    /\ la.pc = "failed"
    /\ la.err.name = "Error"
    /\ la.maxTotalRecords = 2
    /\ Len(la.pages) = 2
    /\ \A i \in 1..Len(la.pages) : HasOffset(la.pages[i])
    /\ Len(la.out) = 3

OffsetEntries(query) == SelectSeq(query, LAMBDA e : e.key = "offset")

\* C3: the first list call carries no offset, each later one carries exactly
\* the offset of the response before it, and the driver holds only the offset
\* of the latest page.
C3_Offsets ==
    /\ \A i \in 1..Len(la.calls) :
          IF i = 1
            THEN /\ la.calls[i].params.offset = Undefined
                 /\ OffsetEntries(la.calls[i].url.query) = <<>>
            ELSE /\ HasOffset(la.pages[i - 1])
                 /\ la.calls[i].params.offset = la.pages[i - 1].offset
                 /\ OffsetEntries(la.calls[i].url.query)
                      = <<QEntry("offset", 0, "", la.pages[i - 1].offset.v)>>
    /\ la.pc = "await" =>
          /\ la.offset = (IF la.pages = <<>> THEN Undefined ELSE Last(la.pages).offset)
          /\ Len(la.calls) = Len(la.pages) + 1
          /\ InFlight(req[la.slot]) =>
                (Len(req[la.slot].sent) = 1 /\ req[la.slot].sent[1].url = Last(la.calls).url)

C3_Witness ==
    /\ Len(la.calls) = 3
    /\ la.pages[1].offset = JStr(<<"o", "1">>)
    /\ la.pages[2].offset = JStr(<<"o", "2">>)
    /\ la.params # Undefined
    /\ la.params.offset = JStr(<<"x">>)
    /\ InFlight(req[la.slot])

\* C10: within a run of listAllRecords at most one list request is in flight,
\* none is in flight unless the driver awaits it, and a list call is issued
\* only when no earlier one is still in flight.
C10_Sequential ==
    /\ [](Cardinality(ListsInFlight) <= 1)
    /\ [](la.pc # "await" => ListsInFlight = {})
    /\ [][Len(la'.calls) > Len(la.calls) =>
            (ListsInFlight = {} /\ (la.calls # <<>> => Resolved(req[la.slot])))]_vars

C10_Witness ==
    /\ la.pc = "await"
    /\ Len(la.calls) = 2
    /\ Len(la.pages) = 1
    /\ ListsInFlight = {la.slot}

(***************************************************************************)
(* Properties of the timer of a call.                                       *)
(***************************************************************************)
\* C11: on every exit path of airtableRequest (a returned value, an HTTP error,
\* a timeout, a network failure, a body that cannot be serialized) the timer
\* is cleared by the time the call settles: a settled call has no pending
\* timer and no abort fires for it afterwards.
C11_TimerCleared ==
    /\ [](\A s \in Slots : Settled(req[s]) => req[s].timer = "cleared")
    /\ [][\A s \in Slots :
            Settled(req[s]) => (req'[s].aborted => req[s].aborted)]_vars

C11_Witness ==
    \E s \in Slots :
        /\ req[s].pc = "failed"
        /\ req[s].cause = "response"
        /\ req[s].res.status = 500
        /\ ~req[s].aborted
        /\ req[s].timer = "cleared"

(***************************************************************************)
(* The concurrent specification: one client, two calls that may overlap,    *)
(* each answered, failed, timed out and observed independently.             *)
(***************************************************************************)
ConcStatuses == {200, 500}
ConcTexts == {JsonText(Body(Undefined)), PlainText(<<"x">>)}
PlainFields == [t |-> "object", circular |-> FALSE]

NextConc ==
    \/ \E s \in Slots, tn \in TableNames, id \in RecordIds : getRecord(s, tn, id)
    \/ \E s \in Slots, tn \in TableNames : createRecord(s, tn, PlainFields)
    \/ \E s \in Slots, st \in ConcStatuses :
          FetchResolve(s, st, <<>>, JStr(ApplicationJson))
    \/ \E s \in Slots, text \in ConcTexts : BodyResolve(s, text)
    \/ \E s \in Slots : TransportFail(s, RawError("TypeError", JStr(<<"f">>)))
    \/ \E s \in Slots : TimerFire(s)
    \/ \E s \in Slots : AbortReject(s)
    \/ \E s \in Slots : Observe(s)

SpecConc == InitPage /\ [][NextConc]_vars

\* C12: two calls in flight on one client have separate timers and separate
\* cancellation handles: in every interleaving, the step in which the timer of
\* one call fires, and the step in which one call completes and clears its
\* timer, leave the other call (its timer, its aborted flag, its progress)
\* exactly as it was.
C12_OwnTimer ==
    [][\A s \in Slots : \A t \in Slots \ {s} :
          /\ (req'[s].aborted /\ ~req[s].aborted) => req'[t] = req[t]
          /\ (InFlight(req[s]) /\ Settled(req'[s])) => req'[t] = req[t]]_vars

C12_Witness ==
    /\ TimedOut(req["a"])
    /\ InFlight(req["b"])
    /\ ~req["b"].aborted
    /\ req["b"].timer = "pending"

(***************************************************************************)
(* The specification of a transport that is free in how it reports the      *)
(* cancellation of a request: with an AbortError or with an error of        *)
(* another name.                                                            *)
(***************************************************************************)
AbortReports ==
    {RawError("AbortError", JStr(<<"a">>)),
     RawError("TypeError", JStr(<<"f">>)),
     RawError("Error", Undefined)}

NextTransport ==
    \/ NewClient
    \/ \E tn \in TableNames, p \in ParamsValues : listRecords(MainSlot, tn, p)
    \/ \E tn \in TableNames, id \in RecordIds : getRecord(MainSlot, tn, id)
    \/ \E tn \in TableNames, f \in FieldsValues : createRecord(MainSlot, tn, f)
    \/ \E tn \in TableNames, id \in RecordIds, f \in FieldsValues :
          updateRecord(MainSlot, tn, id, f)
    \/ \E tn \in TableNames, id \in RecordIds : deleteRecord(MainSlot, tn, id)
    \/ \E st \in Statuses, tx \in StatusTexts, ct \in ContentTypes :
          FetchResolve(MainSlot, st, tx, ct)
    \/ TimerFire(MainSlot)
    \/ \E err \in AbortReports : AbortRejectAs(MainSlot, err)
    \/ Observe(MainSlot)

SpecTransport == Init /\ [][NextTransport]_vars

\* C13: a call aborted by its own timer fails with an AirtableHttpError of
\* status 408 whose message states the timeout value, whichever error the
\* transport reports for the aborted request.
C13_Regardless ==
    \A s \in Slots :
        req[s].cause = "abort" =>
            /\ req[s].pc = "failed"
            /\ req[s].err.name = "AirtableHttpError"
            /\ req[s].err.status = 408
            /\ Includes(req[s].err.message, Digits(req[s].args.config.timeoutMs))

\* C14 as stated: a run of listAllRecords that has ended has ended either with
\* a page without continuation offset (success) or with the ceiling error
\* (failure).
C14_TwoWays ==
    \/ la.pc \in {"idle", "await"}
    \/ /\ la.pc = "done"
       /\ la.pages # <<>>
       /\ ~HasOffset(Last(la.pages))
    \/ /\ la.pc = "failed"
       /\ la.err = CeilingError(la.maxTotalRecords)
       /\ Len(AllRecords(la.pages)) > la.maxTotalRecords

\* the loop ended by an error raised while a page was fetched or read: the
\* awaited list call failed, or its response was not a page
C14_PageError ==
    /\ la.pc = "failed"
    /\ \/ IsHttpError(la.err)
       \/ la.err = NotIterableError

\* C14 as amended: the loop ends in exactly one of three ways, a page without
\* continuation offset (success), the accumulated count exceeding the ceiling
\* (failure), or an error raised while a page is fetched or read (failure with
\* that error); it never ends because of the number of iterations: after any
\* number of pages, a page with an offset that keeps the count within the
\* ceiling is followed by one more list call.
C14_LoopExits ==
    /\ [](C14_TwoWays \/ C14_PageError)
    /\ [](~(C14_PageError /\ la.err = CeilingError(la.maxTotalRecords)))
    /\ [][(/\ la.pc = "await"
           /\ Len(la'.pages) > Len(la.pages)
           /\ HasOffset(Last(la'.pages))
           /\ Len(AllRecords(la'.pages)) <= la.maxTotalRecords)
          => (la'.pc = "await" /\ Len(la'.calls) = Len(la.calls) + 1)]_vars

C14_Witness ==
    /\ la.pc = "failed"
    /\ la.err.name = "AirtableRateLimitError"
    /\ Len(la.pages) = 2
    /\ Len(la.calls) = 3

(***************************************************************************)
(* Properties of the requests the client methods issue.                     *)
(***************************************************************************)
\* the path, query and body the claim names for a client method call
C15_Path(call) ==
    IF call.op \in {"listRecords", "createRecord"}
      THEN <<"/">> \o encodeURIComponent(call.tableName)
      ELSE <<"/">> \o encodeURIComponent(call.tableName)
           \o <<"/">> \o encodeURIComponent(call.recordId)

C15_Method(call) ==
    CASE call.op \in {"listRecords", "getRecord"} -> "GET"
      [] call.op = "createRecord" -> "POST"
      [] call.op = "updateRecord" -> "PATCH"
      [] call.op = "deleteRecord" -> "DELETE"

C15_Request(call) ==
    [method |-> C15_Method(call),
     url |-> [base |-> client.baseUrl, path |-> C15_Path(call),
              query |-> IF call.op = "listRecords" THEN buildListQuery(call.input)
                        ELSE <<>>],
     authorization |-> BearerPrefix \o client.config.token.v,
     contentType |-> ApplicationJson,
     body |-> IF call.op \in {"createRecord", "updateRecord"}
                THEN RawString(JsonText([t |-> "object", fields |-> call.input,
                                         circular |-> FALSE]))
                ELSE Undefined]

\* C15: the request a client method hands to fetch is the one it is named
\* for: listRecords GET table path plus list query, getRecord GET record path,
\* createRecord POST table path with body {fields}, updateRecord PATCH record
\* path with body {fields}, deleteRecord DELETE record path; GET and DELETE
\* carry no body and every request carries the client's token as a Bearer
\* credential.  A call hands over no request only when {fields} cannot be
\* serialized.
C15_Requests ==
    \A s \in Slots :
        req[s].pc # "idle" =>
            IF req[s].cause = "stringify"
              THEN /\ req[s].sent = <<>>
                   /\ req[s].args.call.op \in {"createRecord", "updateRecord"}
                   /\ req[s].args.call.input.circular
              ELSE req[s].sent = <<C15_Request(req[s].args.call)>>

C15_Witness ==
    \E s \in Slots :
        /\ InFlight(req[s])
        /\ req[s].args.call.op = "updateRecord"
        /\ Len(req[s].sent) = 1
        /\ req[s].sent[1].method = "PATCH"
        /\ req[s].sent[1].url.path = <<"/", "T", "/", "r">>
        /\ req[s].sent[1].authorization = <<"B","e","a","r","e","r"," ","t">>
        /\ req[s].sent[1].body # Undefined

\* the base error airtableRequest builds for a non-2xx response, before
\* classification: details are the parsed body, or the raw text when the
\* content type is not JSON
C16_Base(r) ==
    [t |-> "error", name |-> "AirtableHttpError", http |-> TRUE,
     status |-> r.res.status, statusText |-> r.res.statusText, url |-> r.args.url,
     message |-> C7_Expected(r),
     details |-> IF /\ r.res.contentType.t = "string"
                    /\ Includes(r.res.contentType.v, ApplicationJson)
                   THEN (IF r.res.text.json THEN r.res.text.val ELSE Undefined)
                   ELSE RawString(r.res.text)]

\* C16: the specialized error raised for a 401, 403, 404, 422 or 429 response
\* differs from the base HTTP error of that response in its kind tag only: it
\* has the same status, statusText, url, message and details.
C16_KindTagOnly ==
    \A s \in Slots :
        (/\ req[s].cause = "response"
         /\ req[s].pc = "failed"
         /\ req[s].res.status \in {401, 403, 404, 422, 429}) =>
            /\ req[s].err.name # "AirtableHttpError"
            /\ [req[s].err EXCEPT !.name = "AirtableHttpError"] = C16_Base(req[s])

C16_Witness ==
    \E s \in Slots :
        /\ req[s].cause = "response"
        /\ req[s].res.status = 422
        /\ req[s].err.name = "AirtableValidationError"
        /\ req[s].err.statusText = <<"E", "r", "r">>
        /\ req[s].err.details = Body(ErrObj(JStr(<<"T">>), JStr(<<"M">>)))
        /\ req[s].err.message = <<"T", ":", " ", "M">>

(***************************************************************************)
(* The configuration specification: clients are constructed between calls,  *)
(* two calls may overlap, and the caller may assign to the config object it *)
(* passed at any time.                                                      *)
(***************************************************************************)
Mutations ==
    {<<"token", JStr(<<"u">>)>>, <<"timeoutMs", JNum(20)>>,
     <<"baseId", JStr(<<"c">>)>>, <<"apiUrl", JStr(<<"g">>)>>}

ConfigChoices == {c \in Configs : ~ConfigRejected(c)} \cup {[PageConfig EXCEPT !.token = Undefined]}

NextConfig ==
    \/ \E config \in ConfigChoices : Quiescent /\ createAirtableClient(config)
    \/ \E m \in Mutations : MutateConfig(m[1], m[2])
    \/ \E s \in Slots, tn \in TableNames, id \in RecordIds : getRecord(s, tn, id)
    \/ \E s \in Slots, tn \in TableNames : createRecord(s, tn, PlainFields)
    \/ \E s \in Slots, st \in ConcStatuses :
          FetchResolve(s, st, <<>>, JStr(ApplicationJson))
    \/ \E s \in Slots : BodyResolve(s, JsonText(Body(Undefined)))
    \/ \E s \in Slots : TransportFail(s, RawError("TypeError", JStr(<<"f">>)))
    \/ \E s \in Slots : TimerFire(s)
    \/ \E s \in Slots : AbortReject(s)
    \/ \E s \in Slots : Observe(s)

SpecConfig == Init /\ [][NextConfig]_vars

\* the token, timeout and base URL that construction binds for a config
C17_Bound(config) ==
    [token |-> config.token.v,
     timeoutMs |-> IF config.timeoutMs = Undefined THEN 15000 ELSE config.timeoutMs.v,
     base |-> (IF config.apiUrl = Undefined THEN DefaultAirtableApiUrl
               ELSE StripTrailingSlashes(config.apiUrl.v))
              \o <<"/">> \o encodeURIComponent(config.baseId.v)]

\* C17: every request of a client uses the token, the timeout and the base URL
\* bound when the client was constructed, whatever calls came before or
\* overlap it, failed ones included, and whatever the caller has assigned
\* since to the config object it passed; no step other than a construction
\* changes what the client has bound.
C17_ConfigBound ==
    /\ [](\A s \in Slots :
            req[s].pc # "idle" =>
                /\ req[s].args.config.token = C17_Bound(client.config).token
                /\ req[s].args.config.timeoutMs = C17_Bound(client.config).timeoutMs
                /\ req[s].args.url.base = C17_Bound(client.config).base
                /\ \A i \in 1..Len(req[s].sent) :
                      /\ req[s].sent[i].authorization
                            = BearerPrefix \o C17_Bound(client.config).token
                      /\ req[s].sent[i].url.base = C17_Bound(client.config).base)
    /\ [][client'.config = client.config =>
            (client'.reqConfig = client.reqConfig /\ client'.baseUrl = client.baseUrl)]_vars

C17_Witness ==
    /\ client.state = "ready"
    /\ client.config.token = JStr(<<"t">>)
    /\ client.held.token = JStr(<<"u">>)
    /\ client.held.timeoutMs = JNum(20)
    /\ client.held.baseId = JStr(<<"c">>)
    /\ req["a"].pc = "failed"
    /\ InFlight(req["b"])
    /\ req["b"].sent[1].authorization = <<"B","e","a","r","e","r"," ","t">>
    /\ req["b"].args.config.timeoutMs = 15000

\* the response of r announces JSON in its content type
C18_SaysJson(r) ==
    r.res.contentType.t = "string" /\ Includes(r.res.contentType.v, ApplicationJson)

\* C18: a call never fails because the body of its response cannot be parsed
\* as JSON.  The body is parsed only when the content type contains
\* application/json (otherwise the raw text stands for it, even when it is
\* valid JSON); when parsing fails the parsed value is absent: a 2xx response
\* then returns the raw text, a non-2xx response fails with the error kind of
\* its status, the message "{status} {statusText}" and no details.
C18_ParseNeverFails ==
    \A s \in Slots :
        req[s].cause = "response" =>
            LET r == req[s]
                raw == RawString(r.res.text)
            IN  /\ r.pc = (IF r.res.status \in 200..299 THEN "ok" ELSE "failed")
                /\ (r.pc = "failed") => r.thrown.http
                /\ (r.pc = "ok" /\ ~C18_SaysJson(r)) => r.result = raw
                /\ (r.pc = "failed" /\ ~C18_SaysJson(r)) => r.err.details = raw
                /\ (r.pc = "ok" /\ C18_SaysJson(r) /\ ~r.res.text.json) => r.result = raw
                /\ (r.pc = "failed" /\ C18_SaysJson(r) /\ ~r.res.text.json) =>
                       /\ r.err.name = KindOfStatus(r.res.status)
                       /\ r.err.status = r.res.status
                       /\ r.err.message = C7_StatusLine(r.res.status, r.res.statusText)
                       /\ r.err.details = Undefined

C18_Witness ==
    \E s \in Slots :
        /\ req[s].cause = "response"
        /\ req[s].res.status = 404
        /\ req[s].res.statusText = <<"E", "r", "r">>
        /\ req[s].res.contentType = JStr(JsonCharset)
        /\ req[s].res.text = PlainText(<<"x">>)
        /\ req[s].err.name = "AirtableNotFoundError"
        /\ req[s].err.message = <<"4", "0", "4", " ", "E", "r", "r">>

(***************************************************************************)
(* The specification of the listAll helper: runs of listAllRecords entered  *)
(* through listAll(client, tableName, params, options).                     *)
(***************************************************************************)
NextListAll ==
    \/ \E p \in CallerParams, o \in CallerOptions : listAll(p, o)
    \/ LA_Page
    \/ LA_Error
    \/ LA_Observe
    \/ \E s \in Slots, st \in PageStatuses :
          FetchResolve(s, st, <<>>, JStr(ApplicationJson))
    \/ \E s \in Slots : ServePage(s)
    \/ \E s \in Slots : TransportFail(s, RawError("TypeError", JStr(<<"f">>)))
    \/ \E s \in Slots : TimerFire(s)
    \/ \E s \in Slots : AbortReject(s)

SpecListAll == InitPage /\ [][NextListAll]_vars

\* C19: a run entered as listAll(client, table, params, {maxTotalRecords: K})
\* has K as its ceiling: it fails with the ceiling error of K once the pages
\* received hold more than K records.
C19_CustomLimit ==
    (/\ la.entry = "listAll"
     /\ la.asked # Undefined
     /\ Len(AllRecords(la.pages)) > la.asked.maxTotalRecords.v) =>
        (la.pc = "failed" /\ la.err = CeilingError(la.asked.maxTotalRecords.v))

(***************************************************************************)
(* The repository specification: one repository over table T, one method at *)
(* a time, against a server that answers with a record, a page, an error    *)
(* status, a transport failure or nothing at all.                           *)
(***************************************************************************)
RepoModels == {[t |-> "model", name |-> <<"n">>]}
RepoParams ==
    {Undefined, ListParams(JStr(<<"v">>), Undefined, Undefined, Undefined, Undefined, <<>>)}
RepoOptions == {Undefined, [t |-> "object", maxTotalRecords |-> JNum(2)]}

RecordValue == [t |-> "object", id |-> JStr(<<"r">>)]

RepoTexts(r) ==
    IF ~ResOk(r.res.status) \/ r.args.call.op = "listRecords" THEN ListTexts(r)
    ELSE {JsonText(RecordValue), PlainText(<<"x">>)}

\* the server completes the response to the call in slot s
ServeRepo(s) ==
    /\ req[s].pc = "reading"
    /\ \E text \in RepoTexts(req[s]) : BodyResolve(s, text)

NextRepo ==
    \/ \E p \in RepoParams : Repo_listPage(p)
    \/ \E p \in RepoParams, o \in RepoOptions : Repo_listAll(p, o)
    \/ \E id \in RecordIds : Repo_get(id)
    \/ \E m \in RepoModels : Repo_create(m)
    \/ \E id \in RecordIds, m \in RepoModels : Repo_update(id, m)
    \/ \E id \in RecordIds : Repo_delete(id)
    \/ Repo_Settle
    \/ Repo_SettleAll
    \/ Repo_Observe
    \/ LA_Page
    \/ LA_Error
    \/ \E s \in Slots, st \in PageStatuses :
          FetchResolve(s, st, <<>>, JStr(ApplicationJson))
    \/ \E s \in Slots : ServeRepo(s)
    \/ \E s \in Slots : TransportFail(s, RawError("TypeError", JStr(<<"f">>)))
    \/ \E s \in Slots : TimerFire(s)
    \/ \E s \in Slots : AbortReject(s)

SpecRepo == InitPage /\ [][NextRepo]_vars

\* the client method call a repository method delegates to
C20_Call ==
    [op |-> CASE repo.op = "listPage" -> "listRecords"
              [] repo.op = "get" -> "getRecord"
              [] repo.op = "create" -> "createRecord"
              [] repo.op = "update" -> "updateRecord"
              [] repo.op = "delete" -> "deleteRecord",
     tableName |-> TableName,
     recordId |-> repo.recordId,
     input |-> CASE repo.op \in {"create", "update"} -> toFields(repo.model)
                 [] repo.op = "listPage" -> repo.params
                 [] OTHER -> Undefined]

\* C20: every repository method delegates to one client operation.  listAll
\* runs listAllRecords with the same params and options and returns fromRecord
\* of each of its records in order; get, create and update return fromRecord
\* of the client's record; create and update send toFields of the model; a
\* failure of the client call is the failure of the method, unchanged, and
\* fromRecord is not applied.
C20_Delegation ==
    /\ (repo.pc # "idle" /\ repo.op # "listAll") =>
          /\ la.pc = "idle"
          /\ \A s \in Slots \ {repo.slot} : req[s].pc = "idle"
          /\ req[repo.slot].args.call = C20_Call
    /\ (repo.pc # "idle" /\ repo.op = "listAll") =>
          /\ la.pc # "idle"
          /\ la.params = repo.params
          /\ la.asked = repo.options
          /\ la.maxTotalRecords = (IF repo.options = Undefined THEN DefaultMaxTotalRecords
                                    ELSE repo.options.maxTotalRecords.v)
    /\ (repo.pc = "done" /\ repo.op \in {"get", "create", "update"}) =>
          /\ Resolved(req[repo.slot])
          /\ repo.result = fromRecord(req[repo.slot].result)
    /\ (repo.pc = "done" /\ repo.op = "listAll") =>
          /\ la.pc = "done"
          /\ Len(repo.result) = Len(la.result)
          /\ \A i \in 1..Len(la.result) : repo.result[i] = fromRecord(la.result[i])
    /\ (repo.pc = "done" /\ repo.op = "delete") =>
          /\ Resolved(req[repo.slot])
          /\ repo.result = req[repo.slot].result
          /\ repo.applied = 0
    /\ (repo.pc = "done" /\ repo.op = "listPage") =>
          /\ Resolved(req[repo.slot])
          /\ repo.result.offset = req[repo.slot].result.offset
          /\ Len(repo.result.records) = Len(req[repo.slot].result.records)
          /\ \A i \in 1..Len(repo.result.records) :
                repo.result.records[i] = fromRecord(req[repo.slot].result.records[i])
    /\ (repo.pc = "failed" /\ repo.op = "listPage") =>
          /\ repo.applied = 0
          /\ \/ Rejected(req[repo.slot]) /\ repo.err = req[repo.slot].err
             \/ Resolved(req[repo.slot]) /\ ~IsPage(req[repo.slot].result)
    /\ (repo.pc = "failed" /\ repo.op \in {"get", "create", "update", "delete"}) =>
          /\ Rejected(req[repo.slot])
          /\ repo.err = req[repo.slot].err
          /\ repo.applied = 0
    /\ (repo.pc = "failed" /\ repo.op = "listAll") =>
          /\ la.pc = "failed"
          /\ repo.err = la.err
          /\ repo.applied = 0

C20_Witness ==
    /\ repo.pc = "done"
    /\ repo.op = "listAll"
    /\ repo.options # Undefined
    /\ repo.params # Undefined
    /\ repo.result = <<fromRecord(<<1, 1>>), fromRecord(<<2, 1>>)>>


(***************************************************************************)
(* attachments.ts: the file-upload path (uploadLocalFile) and the server    *)
(* side of the attachment field.                                            *)
(***************************************************************************)
ApiHost == <<"a","p","i",".","a","i","r","t","a","b","l","e",".","c","o","m">>
ContentHost == <<"c","o","n","t","e","n","t",".","a","i","r","t","a","b","l","e",".","c","o","m">>
UploadAttachment == <<"/","u","p","l","o","a","d","A","t","t","a","c","h","m","e","n","t">>
FieldNameText == <<"A","t","t","a","c","h","m","e","n","t","s">>

RECURSIVE Replace(_, _, _)
\* str.replace(from, to): the first occurrence only
Replace(str, from, to) ==
    IF Len(str) < Len(from) THEN str
    ELSE IF SubSeq(str, 1, Len(from)) = from
      THEN to \o SubSeq(str, Len(from) + 1, Len(str))
    ELSE <<Head(str)>> \o Replace(Tail(str), from, to)

\* `${contentApiUrl}/${baseId}/${recordId}/${fieldName}/uploadAttachment`
uploadUrl(recordId, fieldName) ==
    Url(StripTrailingSlashes(Replace(client.apiUrl.v, ApiHost, ContentHost)),
        <<"/">> \o encodeURIComponent(client.baseId.v) \o <<"/">>
          \o encodeURIComponent(recordId) \o <<"/">> \o encodeURIComponent(fieldName)
          \o UploadAttachment,
        <<>>)

RECURSIVE LastPart(_)
\* the last element of filePath.split("/")
LastPart(path) ==
    IF \E i \in 1..Len(path) : path[i] = "/" THEN LastPart(Tail(path)) ELSE path

\* parts[parts.length - 1] || "file"
getFilenameFromPath(path) ==
    IF LastPart(path) = <<>> THEN <<"f","i","l","e">> ELSE LastPart(path)

OctetStream == <<"a","p","p","l","i","c","a","t","i","o","n","/","o","c","t","e","t","-","s","t","r","e","a","m">>

\* MIME_TYPES[ext] || "application/octet-stream"; the paths of the model carry
\* no extension
getMimeTypeFromExtension(path) == OctetStream

\* { contentType, file: base64, filename }; the content of the file is
\* represented by its path
UploadBody(obj) ==
    [t |-> "object", circular |-> FALSE,
     contentType |-> Or(obj.type, JStr(getMimeTypeFromExtension(obj.filePath.v))),
     file |-> obj.filePath,
     filename |-> Or(obj.filename, JStr(getFilenameFromPath(obj.filePath.v)))]

\* client._request(url, method, body)
_requestArgs(url, method, body) ==
    Invoked("_request", <<>>, <<>>, body, RequestArgs(url, method, body))

FileError == RawError("Error", JStr(<<"u","p","l","o","a","d","L","o","c","a","l","F","i","l","e",":"," ","f","i","l","e">>))
UploadFailedPrefix == <<"U","p","l","o","a","d"," ","f","a","i","l","e","d","."," ">>

UploadKinds ==
    {"AirtableAuthError", "AirtableNotFoundError", "AirtableValidationError",
     "AirtableRateLimitError"}

\* the catch block of uploadLocalFile: an error of the HTTP taxonomy is thrown
\* again as a new error of the same one of the four specific kinds, or as a
\* plain AirtableHttpError, with the upload context in message and details
EnhancedUploadError(err) ==
    IF IsHttpError(err)
      THEN [AirtableHttpError(
               [status |-> err.status, statusText |-> err.statusText, url |-> err.url,
                message |-> UploadFailedPrefix \o err.message,
                details |-> [t |-> "object", uploadContext |-> TRUE, of |-> err.details]])
             EXCEPT !.name = IF err.name \in UploadKinds THEN err.name
                             ELSE "AirtableHttpError"]
      ELSE err

\* fs.stat or the read of the file fails, or the file is empty or too large
Att_FileFails(c) ==
    /\ att[c].pc = "upload"
    /\ att' = [att EXCEPT ![c].pc = "failed", ![c].err = FileError]
    /\ UNCHANGED <<client, req, la, repo, table>>

\* the file was read: await client._request(uploadUrl, "POST", {...})
Att_UploadRequest(c) ==
    /\ att[c].pc = "upload"
    /\ req[c].pc = "idle"
    /\ att' = [att EXCEPT ![c].pc = "post", ![c].ops = Append(@, "_request")]
    /\ req' = [req EXCEPT ![c] = Started(_requestArgs(uploadUrl(RecordId, FieldNameText),
                                                     "POST", UploadBody(att[c].obj)))]
    /\ UNCHANGED <<client, la, repo, table>>

\* the awaited _request settled
Att_Uploaded(c) ==
    /\ att[c].pc = "post"
    /\ Settled(req[c])
    /\ att' = IF Rejected(req[c])
                THEN [att EXCEPT ![c].pc = "failed",
                                 ![c].err = EnhancedUploadError(req[c].err)]
                ELSE [att EXCEPT ![c].pc = "done", ![c].result = req[c].result]
    /\ req' = [req EXCEPT ![c] = IdleReq]
    /\ UNCHANGED <<client, la, repo, table>>

\* the caller takes the outcome of the call
Att_Observe(c) ==
    /\ att[c].pc \in {"done", "failed"}
    /\ att' = [att EXCEPT ![c] = IdleAtt]
    /\ UNCHANGED <<client, req, la, repo, table>>

\* the record the server holds, as it answers with it
RecordOf(field) ==
    [t |-> "object", id |-> JStr(RecordId),
     fields |-> IF field = Undefined THEN [t |-> "object"]
                ELSE [t |-> "object", Attachments |-> field]]

IsPatch(r) == r.args.method = "PATCH"

\* the server applies the PATCH in slot s: the field becomes the value sent
ApplyPatch(s) ==
    /\ req[s].pc = "fetching"
    /\ att[s].pc = "update"
    /\ IsPatch(req[s])
    /\ s \notin table.applied
    /\ table' = [field |-> req[s].args.body.fields.Attachments,
                 applied |-> table.applied \cup {s}]
    /\ UNCHANGED <<client, req, la, repo, att>>

\* the server answers the call in slot s: a PATCH is answered 2xx exactly
\* when it was applied
ServeHeaders(s, status) ==
    /\ att[s].pc \in {"get", "update", "post"}
    /\ req[s].pc = "fetching"
    /\ IsPatch(req[s]) => (ResOk(status) <=> s \in table.applied)
    /\ FetchResolve(s, status, <<>>, JStr(ApplicationJson))

RecordTexts(r) ==
    IF ResOk(r.res.status)
      THEN {JsonText(RecordOf(table.field)), PlainText(<<"x">>)}
      ELSE {JsonText(Body(ErrObj(JStr(<<"T">>), JStr(<<"M">>))))}

\* the server completes the response with the record as it is now
ServeRecord(s) ==
    /\ att[s].pc \in {"get", "update", "post"}
    /\ req[s].pc = "reading"
    /\ \E text \in RecordTexts(req[s]) : BodyResolve(s, text)

(***************************************************************************)
(* Specification of one call of addAttachmentToRecord at a time.            *)
(***************************************************************************)
OldAttachment == Attachment(JStr(<<"h","t","t","p","s",":","/","/","o">>), Undefined, Undefined, Undefined, Undefined)

FieldValues == {Undefined, JNull, Arr(<<>>), Arr(<<OldAttachment>>), JNum(1)}

UrlChoices ==
    {Undefined, JStr(<<>>), JStr(<<"h","t","t","p","s",":","/","/","n">>), JStr(<<"h","t","t","p",":","/","/","n">>),
     JStr(<<"f","t","p",":","/","/","n">>)}

PathChoices == {Undefined, JStr(<<"/","d","/","f">>)}

AttachmentChoices ==
    {Undefined} \cup
    {Attachment(u, f, Undefined, Undefined, Undefined) : u \in UrlChoices, f \in PathChoices}

AttArgs ==
    {[attachment |-> a, url |-> u, filePath |-> f, filename |-> Undefined,
      size |-> Undefined, type |-> Undefined, contentType |-> Undefined] :
        a \in AttachmentChoices, u \in UrlChoices, f \in PathChoices}

AttachStatuses == {200, 404, 500}

InitAttach ==
    /\ client = Construct(PageConfig)
    /\ req = [s \in Slots |-> IdleReq]
    /\ la = IdleLA
    /\ repo = IdleRepo
    /\ att = [c \in Slots |-> IdleAtt]
    /\ table \in {[field |-> f, applied |-> {}] : f \in FieldValues}

NextAttach ==
    \/ \E args \in AttArgs : Att_Call(MainSlot, args)
    \/ Att_GotRecord(MainSlot)
    \/ Att_Updated(MainSlot)
    \/ Att_FileFails(MainSlot)
    \/ Att_UploadRequest(MainSlot)
    \/ Att_Uploaded(MainSlot)
    \/ Att_Observe(MainSlot)
    \/ ApplyPatch(MainSlot)
    \/ \E st \in AttachStatuses : ServeHeaders(MainSlot, st)
    \/ ServeRecord(MainSlot)
    \/ TransportFail(MainSlot, RawError("TypeError", JStr(<<"f">>)))
    \/ TimerFire(MainSlot)
    \/ AbortReject(MainSlot)

SpecAttach == InitAttach /\ [][NextAttach]_vars

(***************************************************************************)
(* Properties of addAttachmentToRecord.                                     *)
(***************************************************************************)
\* the attachments a record holds in the field, none when the field is absent
ReadAttachments(record) ==
    LET field == Get(Get(record, "fields"), FieldName)
    IN  IF Nullish(field) THEN <<>> ELSE field.items

\* the attachment object names a URL and no file
UrlAttachment(obj) ==
    obj.t = "object" /\ Falsy(obj.filePath) /\ Truthy(obj.url) /\ isUrl(obj.url.v)

\* C21: a call of addAttachmentToRecord with a URL attachment that has issued
\* updateRecord has performed exactly one getRecord and then one updateRecord,
\* and the value sent for the field is the attachments read from the record
\* (none when the field is absent) followed by the new attachment as last
\* element; while the update is under way the PATCH carries that value.
C21_AppendsLast ==
    \A c \in Slots :
        (UrlAttachment(att[c].obj) /\ att[c].pc \in {"update", "done"}) =>
            /\ att[c].ops = <<"getRecord", "updateRecord">>
            /\ att[c].sentValue.items = ReadAttachments(att[c].record) \o <<att[c].obj>>
            /\ att[c].pc = "update" =>
                  /\ req[c].args.call.op = "updateRecord"
                  /\ req[c].args.call.recordId = RecordId
                  /\ req[c].args.body.fields = AttachmentFields(att[c].sentValue)

C21_Witness ==
    \E c \in Slots :
        /\ att[c].pc = "done"
        /\ att[c].ops = <<"getRecord", "updateRecord">>
        /\ ReadAttachments(att[c].record) = <<OldAttachment>>
        /\ att[c].sentValue.items = <<OldAttachment, att[c].obj>>


\* a value is given directly or in the attachment object
GivenUrl(args) == Truthy(args.url) \/ Truthy(Get(args.attachment, "url"))
GivenPath(args) == Truthy(args.filePath) \/ Truthy(Get(args.attachment, "filePath"))
GivenUrls(args) ==
    {u \in {args.url, Get(args.attachment, "url")} : Truthy(u)}

NoClientOperation(c) == att[c].ops = <<>> /\ req[c].pc = "idle"

\* C22 as stated: a call given neither url nor filePath, directly or in the
\* attachment object, or given only a url that does not start with http:// or
\* https://, is rejected without any client operation; a call given both a
\* url and a filePath takes the upload path and never calls getRecord or
\* updateRecord.
C22_Given ==
    \A c \in Slots :
        att[c].pc # "idle" =>
            LET args == att[c].args
            IN  /\ (~GivenUrl(args) /\ ~GivenPath(args)) =>
                      (att[c].pc = "failed" /\ NoClientOperation(c))
                /\ (/\ ~GivenPath(args)
                    /\ GivenUrl(args)
                    /\ \A u \in GivenUrls(args) : ~isUrl(u.v)) =>
                      (att[c].pc = "failed" /\ NoClientOperation(c))
                /\ (GivenUrl(args) /\ GivenPath(args)) =>
                      /\ att[c].pc \in {"upload", "post", "done", "failed"}
                      /\ \A i \in 1..Len(att[c].ops) : att[c].ops[i] = "_request"

\* the url and the filePath the call works with: those of the attachment
\* object when one is passed, the direct parameters otherwise
EffectiveUrl(args) ==
    IF Truthy(args.attachment) THEN Get(args.attachment, "url") ELSE args.url
EffectivePath(args) ==
    IF Truthy(args.attachment) THEN Get(args.attachment, "filePath") ELSE args.filePath

\* C22 (amended): with url and filePath taken from the attachment object when
\* one is passed and from the direct parameters otherwise, a call with
\* neither, or with no filePath and a url that does not start with http://
\* or https://, is rejected without any client operation; a call with a
\* filePath, with or without a url, takes the upload path and never calls
\* getRecord or updateRecord.
C22_Effective ==
    \A c \in Slots :
        att[c].pc # "idle" =>
            LET u == EffectiveUrl(att[c].args)
                f == EffectivePath(att[c].args)
            IN  /\ (Falsy(u) /\ Falsy(f)) =>
                      (att[c].pc = "failed" /\ NoClientOperation(c))
                /\ (Falsy(f) /\ Truthy(u) /\ ~isUrl(u.v)) =>
                      (att[c].pc = "failed" /\ NoClientOperation(c))
                /\ Truthy(f) =>
                      /\ att[c].pc \in {"upload", "post", "done", "failed"}
                      /\ \A i \in 1..Len(att[c].ops) : att[c].ops[i] = "_request"

C22_Witness ==
    \E c \in Slots :
        /\ att[c].pc = "done"
        /\ Truthy(EffectiveUrl(att[c].args))
        /\ Truthy(EffectivePath(att[c].args))
        /\ att[c].ops = <<"_request">>


(***************************************************************************)
(* Specification of buildListQuery: list calls over the parameter objects a *)
(* caller can pass, each answered by an empty page.                         *)
(***************************************************************************)
SortSpec(field, direction) == [field |-> JStr(field), direction |-> direction]

QuerySorts ==
    {<<>>,
     <<SortSpec(<<"N">>, JStr(<<"a","s","c">>))>>,
     <<SortSpec(<<"N">>, Undefined), SortSpec(<<"C">>, JStr(<<"d","e","s","c">>))>>}

QueryParams ==
    {Undefined} \cup
    {ListParams(v, f, m, ps, o, srt) :
        v \in {Undefined, JStr(<<>>), JStr(<<"G"," ","v">>)},
        f \in {Undefined, JStr(<<"f","=","1">>)},
        m \in {Undefined, JNum(0), JNum(10)},
        ps \in {Undefined, JNum(5)},
        o \in {Undefined, JStr(<<>>), JStr(<<"o">>)},
        srt \in QuerySorts}

NextQuery ==
    \/ \E p \in QueryParams : listRecords(MainSlot, TableName, p)
    \/ FetchResolve(MainSlot, 200, <<>>, JStr(ApplicationJson))
    \/ BodyResolve(MainSlot, JsonText(JNull))
    \/ Observe(MainSlot)

SpecQuery == InitPage /\ [][NextQuery]_vars

ScalarKeys == {"view", "filterByFormula", "maxRecords", "pageSize", "offset"}

\* the text a parameter value is written as
ValueText(v) == IF IsNumber(v) THEN Digits(v.v) ELSE v.v

\* the entries of the query q under the name key, key[i][sub]
Entries(q, key, i, sub) ==
    {k \in 1..Len(q) : q[k].key = key /\ q[k].idx = i /\ q[k].sub = sub}

\* a parameter is present: it has a value / a value other than null / a value
\* that is not empty or zero
IsPresent(reading, v) ==
    CASE reading = "defined" -> v # Undefined
      [] reading = "notNull" -> ~Nullish(v)
      [] reading = "nonEmpty" -> Truthy(v)

\* the list calls made with a params object
ListCalls == {s \in Slots : req[s].pc # "idle" /\ req[s].args.call.op = "listRecords"}

SortAsPairs(q, sort) ==
    /\ \A i \in 0..(Len(sort) - 1) :
          /\ \E k \in Entries(q, "sort", i, "field") :
                /\ Entries(q, "sort", i, "field") = {k}
                /\ q[k].val = sort[i + 1].field.v
                /\ \A j \in 0..(i - 1) : \A kj \in Entries(q, "sort", j, "field") : kj < k
                /\ IF sort[i + 1].direction = Undefined
                     THEN Entries(q, "sort", i, "direction") = {}
                     ELSE Entries(q, "sort", i, "direction") = {k + 1}
                          /\ q[k + 1].val = sort[i + 1].direction.v
    /\ \A k \in 1..Len(q) : q[k].key = "sort" => q[k].idx < Len(sort)

\* C23 as stated, under one meaning of "present" for all five parameters: the
\* result is "" when params is absent or holds no present parameter and no
\* sort element, otherwise it starts with "?"; each of view, filterByFormula,
\* maxRecords, pageSize, offset is emitted exactly when present; sort is
\* emitted as indexed pairs in array order, the direction pair omitted when
\* the direction is absent.  Some meaning of "present" must fit each call.
C23_Present ==
    \A s \in ListCalls :
        LET p == req[s].args.call.input
            q == req[s].args.url.query
            str == QueryString(q)
        IN  \E reading \in {"defined", "notNull", "nonEmpty"} :
              IF p = Undefined THEN str = <<>>
              ELSE /\ \A key \in ScalarKeys :
                        IF IsPresent(reading, p[key])
                          THEN \E k \in Entries(q, key, 0, "") :
                                  /\ Entries(q, key, 0, "") = {k}
                                  /\ q[k].val = ValueText(p[key])
                          ELSE Entries(q, key, 0, "") = {}
                   /\ SortAsPairs(q, p.sort)
                   /\ IF p.sort = <<>> /\ \A key \in ScalarKeys : ~IsPresent(reading, p[key])
                        THEN str = <<>>
                        ELSE str # <<>> /\ Head(str) = "?"

\* what makes each parameter count: view, filterByFormula and offset a
\* non-empty string, maxRecords and pageSize a number (zero included)
Counts(key, v) ==
    IF key \in {"maxRecords", "pageSize"} THEN IsNumber(v) ELSE IsString(v) /\ v.v # <<>>

\* C23 (amended): the result is "" when params is absent or nothing counts,
\* otherwise "?" followed by the pairs; view, filterByFormula and offset are
\* emitted exactly when they are non-empty strings, maxRecords and pageSize
\* exactly when they are numbers (zero included), sort as indexed pairs in
\* array order with the direction pair omitted when the direction is absent,
\* and nothing else is emitted.
C23_Emits ==
    \A s \in ListCalls :
        LET p == req[s].args.call.input
            q == req[s].args.url.query
            str == QueryString(q)
        IN  IF p = Undefined THEN str = <<>>
            ELSE /\ \A key \in ScalarKeys :
                      IF Counts(key, p[key])
                        THEN \E k \in Entries(q, key, 0, "") :
                                /\ Entries(q, key, 0, "") = {k}
                                /\ q[k].val = ValueText(p[key])
                        ELSE Entries(q, key, 0, "") = {}
                 /\ SortAsPairs(q, p.sort)
                 /\ \A k \in 1..Len(q) : q[k].key \in ScalarKeys \cup {"sort"}
                 /\ IF p.sort = <<>> /\ \A key \in ScalarKeys : ~Counts(key, p[key])
                      THEN str = <<>>
                      ELSE /\ Head(str) = "?"
                           /\ Tail(str) = QToString(q)
                           /\ Len(str) > 1

C23_Witness ==
    \E s \in ListCalls :
        LET p == req[s].args.call.input
        IN  /\ p # Undefined
            /\ p.view = JStr(<<>>)
            /\ p.maxRecords = JNum(0)
            /\ Len(p.sort) = 2
            /\ QueryString(req[s].args.url.query) =
                 <<"?","m","a","x","R","e","c","o","r","d","s","=","0","&","s","o","r","t","%","5","B","0","%","5","D","%","5","B","f","i","e","l","d","%","5","D","=","N","&","s","o","r","t","%","5","B","1","%","5","D","%","5","B","f","i","e","l","d","%","5","D","=","C","&","s","o","r","t","%","5","B","1","%","5","D","%","5","B","d","i","r","e","c","t","i","o","n","%","5","D","=","d","e","s","c">>


(***************************************************************************)
(* Further properties of the pagination driver.                             *)
(***************************************************************************)
\* C24: listAllRecords never returns more than maxTotalRecords records.  The
\* count it carries into the next list call or returns is within the ceiling
\* (the check follows every append); pages received whose records exceed the
\* ceiling mean failure with the ceiling error, also when the last page has no
\* offset (the check precedes the offset check); a count equal to the ceiling
\* is no failure; at the failure the count exceeds the ceiling by at most the
\* size of the last page.
C24_NeverAbove ==
    LET count == Len(AllRecords(la.pages))
        ceilingFailure == la.pc = "failed" /\ la.err = CeilingError(la.maxTotalRecords)
    IN  /\ la.pc = "done" => Len(la.result) <= la.maxTotalRecords
        /\ la.pc \in {"await", "done"} =>
              (Len(la.out) = count /\ count <= la.maxTotalRecords)
        /\ count > la.maxTotalRecords => ceilingFailure
        /\ ceilingFailure =>
              /\ count > la.maxTotalRecords
              /\ Len(la.out) = count
              /\ count - Len(Last(la.pages).records) <= la.maxTotalRecords
        /\ (la.pages # <<>> /\ ~HasOffset(Last(la.pages)) /\ count = la.maxTotalRecords) =>
              la.pc = "done"

\* a final page without offset brought the count above the ceiling
C24_Witness ==
    /\ la.pc = "failed"
    /\ la.err = CeilingError(la.maxTotalRecords)
    /\ Len(la.pages) = 2
    /\ ~HasOffset(Last(la.pages))
    /\ Len(AllRecords(Front(la.pages))) = la.maxTotalRecords
    /\ Len(la.out) = la.maxTotalRecords + 2


\* C25: when a list call of the run fails (HTTP error, timeout or network
\* error), listAllRecords fails with that same error, issues no further list
\* call and returns none of the records accumulated so far.
C25_SameError ==
    /\ [][(la.pc = "await" /\ Rejected(req[la.slot]) /\ la' # la) =>
            /\ la'.pc = "failed"
            /\ la'.err = req[la.slot].err
            /\ la'.calls = la.calls
            /\ la'.result = Undefined
            /\ \A s \in Slots : ~InFlight(req'[s])]_vars
    /\ [][(la.pc = "failed" /\ la.entry = "listAllRecords") =>
            (la' = la \/ la' = IdleLA)]_vars
    /\ []((la.pc = "failed" /\ IsHttpError(la.err)) =>
            /\ la.result = Undefined
            /\ ListsInFlight = {}
            /\ Len(la.calls) = Len(la.pages) + 1)

\* a network error on the third list call, two pages of records accumulated
C25_Witness ==
    /\ la.pc = "failed"
    /\ la.err.name = "AirtableNetworkError"
    /\ Len(la.calls) = 3
    /\ Len(la.out) >= 2
    /\ la.result = Undefined


(***************************************************************************)
(* Specification of listAllRecords against a server that answers every list *)
(* call in time with a page of zero records and a continuation offset.      *)
(***************************************************************************)
ContinuationOffsets == {JStr(<<"o", "1">>), JStr(<<"o", "2">>)}

AnswerList(s) ==
    /\ la.pc = "await"
    /\ FetchResolve(s, 200, <<>>, JStr(ApplicationJson))

ServeEmptyPage(s) ==
    /\ req[s].pc = "reading"
    /\ \E o \in ContinuationOffsets : BodyResolve(s, JsonText(Page(Len(la.calls), 0, o)))

NextEmptyPages ==
    \/ \E p \in CallerParams, o \in CallerOptions : LA_Start(p, o)
    \/ LA_Page
    \/ \E s \in Slots : AnswerList(s)
    \/ \E s \in Slots : ServeEmptyPage(s)

SpecEmptyPages ==
    /\ InitPage
    /\ [][NextEmptyPages]_vars
    /\ WF_vars(LA_Page)
    /\ WF_vars(\E s \in Slots : AnswerList(s))
    /\ WF_vars(\E s \in Slots : ServeEmptyPage(s))

FullPageTexts(r) ==
    IF ResOk(r.res.status)
      THEN {JsonText(Page(Len(la.calls), n, o)) : n \in 1..MaxPageSize, o \in Offsets}
           \cup {JsonText(Page(Len(la.calls), 0, Undefined))}
      ELSE {JsonText(Body(ErrObj(JStr(<<"T">>), JStr(<<"M">>))))}

ServeFullPage(s) ==
    /\ req[s].pc = "reading"
    /\ \E text \in FullPageTexts(req[s]) : BodyResolve(s, text)

\* ceilings K for which K + 1 list calls fit the call history of the model
FullOptions ==
    {[t |-> "object", maxTotalRecords |-> JNum(k)] : k \in 0..(MaxListCalls - 1)}

NextFullPages ==
    \/ \E o \in FullOptions : LA_Start(Undefined, o)
    \/ LA_Page
    \/ LA_Error
    \/ LA_Observe
    \/ \E s \in Slots, st \in PageStatuses :
          FetchResolve(s, st, <<>>, JStr(ApplicationJson))
    \/ \E s \in Slots : ServeFullPage(s)
    \/ \E s \in Slots : TransportFail(s, RawError("TypeError", JStr(<<"f">>)))
    \/ \E s \in Slots : TimerFire(s)
    \/ \E s \in Slots : AbortReject(s)

\* the steps by which a list call settles and the loop goes on
Settles ==
    \/ LA_Page
    \/ LA_Error
    \/ \E s \in Slots, st \in PageStatuses :
          FetchResolve(s, st, <<>>, JStr(ApplicationJson))
    \/ \E s \in Slots : ServeFullPage(s)
    \/ \E s \in Slots : AbortReject(s)

SpecFullPages ==
    /\ InitPage
    /\ [][NextFullPages]_vars
    /\ WF_vars(Settles)

\* every page received with a continuation offset holds at least one record
OffsetPagesHoldRecords ==
    \A i \in 1..Len(la.pages) : HasOffset(la.pages[i]) => Len(la.pages[i].records) >= 1

\* C27: when every page with an offset holds at least one record and every
\* list call settles, a run of listAllRecords with ceiling K ends, and it
\* makes at most K + 1 list calls.
C27_Terminates ==
    /\ [](OffsetPagesHoldRecords => Len(la.calls) <= la.maxTotalRecords + 1)
    /\ (la.pc = "await") ~> (la.pc \in {"done", "failed"})

\* a run with ceiling 2 that ended at its third list call
C27_Witness ==
    /\ la.pc \in {"done", "failed"}
    /\ la.maxTotalRecords = 2
    /\ Len(la.calls) = 3
    /\ Len(la.pages) = 3
    /\ OffsetPagesHoldRecords


OtherKeys == {"view", "filterByFormula", "maxRecords", "pageSize", "sort"}

WithoutOffset(query) == SelectSeq(query, LAMBDA e : e.key # "offset")

\* C30: the offset of the list calls is the driver's alone.  Whatever offset
\* the caller's params hold, the first list call carries no offset and a
\* later one the offset of the page before it; every other parameter of the
\* caller's params is passed unchanged on every list call, in the params given
\* to listRecords and in the query of the request.
C30_DriverManaged ==
    \A i \in 1..Len(la.calls) :
        LET sent == la.calls[i].params
            own == Coalesce(la.params, EmptyParams)
        IN  /\ \A key \in OtherKeys : sent[key] = own[key]
            /\ WithoutOffset(la.calls[i].url.query)
                 = buildListQuery([own EXCEPT !.offset = Undefined])
            /\ IF i = 1
                 THEN /\ sent.offset = Undefined
                      /\ WithoutOffset(la.calls[i].url.query) = la.calls[i].url.query
                 ELSE sent.offset = la.pages[i - 1].offset

\* the caller passed an offset among other parameters; two list calls so far
C30_Witness ==
    /\ la.pc = "await"
    /\ Len(la.calls) = 2
    /\ la.params # Undefined
    /\ la.params.offset = JStr(<<"x">>)
    /\ la.params.view = JStr(<<"v">>)
    /\ la.params.maxRecords = JNum(0)
    /\ la.calls[1].params.offset = Undefined
    /\ la.calls[2].params.offset = JStr(<<"o", "1">>)


(***************************************************************************)
(* Further properties of airtableRequest.                                   *)
(***************************************************************************)
TaxonomyNames ==
    {"AirtableHttpError", "AirtableAuthError", "AirtableNotFoundError",
     "AirtableValidationError", "AirtableRateLimitError", "AirtableNetworkError"}

\* C29: every failure of airtableRequest is an error of the HTTP taxonomy that
\* carries a status, a status text, the url of the call and a message,
\* whatever ended the call: the serialization of the body, the transport, the
\* timer, or the classification of a response; the caller never receives the
\* error that was thrown inside unless it is of the taxonomy itself.
C29_AlwaysTaxonomy ==
    \A s \in Slots :
        req[s].pc = "failed" =>
            /\ req[s].cause \in {"stringify", "transport", "abort", "response"}
            /\ IsHttpError(req[s].err)
            /\ req[s].err.name \in TaxonomyNames
            /\ {"status", "statusText", "url", "message"} \subseteq DOMAIN req[s].err
            /\ req[s].err.status \in 100..599
            /\ req[s].err.url = req[s].args.url
            /\ ~IsHttpError(req[s].thrown) => req[s].err # req[s].thrown

\* JSON.stringify threw a TypeError; the caller receives a network error
C29_Witness ==
    \E s \in Slots :
        /\ req[s].pc = "failed"
        /\ req[s].cause = "stringify"
        /\ req[s].thrown.name = "TypeError"
        /\ req[s].err.name = "AirtableNetworkError"
        /\ req[s].err.status = NetworkStatus


(***************************************************************************)
(* Specification of two calls of addAttachmentToRecord with URL attachments *)
(* on the same record and field, each made once, in any interleaving; the   *)
(* server answers every request with 200.                                   *)
(***************************************************************************)
NewAttachment(c) ==
    Attachment(JStr(<<"h","t","t","p","s",":","/","/">> \o <<c>>), Undefined, Undefined, Undefined, Undefined)

RaceArgs(c) ==
    [attachment |-> NewAttachment(c), url |-> Undefined, filePath |-> Undefined,
     filename |-> Undefined, size |-> Undefined, type |-> Undefined,
     contentType |-> Undefined]

InitRace ==
    /\ client = Construct(PageConfig)
    /\ req = [s \in Slots |-> IdleReq]
    /\ la = IdleLA
    /\ repo = IdleRepo
    /\ att = [c \in Slots |-> IdleAtt]
    /\ table \in {[field |-> f, applied |-> {}] : f \in {Undefined, Arr(<<OldAttachment>>)}}

\* no call has written the field yet
FieldUntouched == table.field \in {Undefined, Arr(<<OldAttachment>>)}

NextRace ==
    \/ \E c \in Slots : FieldUntouched /\ Att_Call(c, RaceArgs(c))
    \/ \E c \in Slots : Att_GotRecord(c)
    \/ \E c \in Slots : Att_Updated(c)
    \/ \E c \in Slots : ApplyPatch(c)
    \/ \E c \in Slots : ServeHeaders(c, 200)
    \/ \E c \in Slots : ServeRecord(c)

SpecAttachRace == InitRace /\ [][NextRace]_vars

\* the attachments the field holds
FieldItems ==
    IF table.field.t = "array" THEN {table.field.items[i] : i \in 1..Len(table.field.items)}
    ELSE {}

\* both calls have completed
BothCompleted == \A c \in Slots : att[c].pc = "done"

\* C28: after two concurrent calls with URL attachments on the same record
\* and field have both completed, the field holds every attachment it held
\* before and both new ones.
C28_BothKept ==
    BothCompleted =>
        /\ \A c \in Slots : att[c].obj \in FieldItems
        /\ \A c \in Slots :
              \A i \in 1..Len(ReadAttachments(att[c].record)) :
                  ReadAttachments(att[c].record)[i] \in FieldItems

====
